---- MODULE Spec2Model ----
(***************************************************************************)
(* State-machine model of TG.NakrutkaGuard: the join-rate attack detector  *)
(* (bot/utils/detector.py, bot/utils/join_counter.py), the join handler    *)
(* (bot/handlers/members.py), the chat/session store (bot/database.py) and *)
(* the captcha answer workflow (bot/handlers/captcha.py).                   *)
(*                                                                         *)
(* One protected chat is modelled: every query of the code is keyed by     *)
(* chat_id, so chats do not interact.  A coroutine is modelled at await    *)
(* granularity: one action is the completion of the awaited call together  *)
(* with the synchronous code that follows it, up to the next await.  An     *)
(* awaited call that neither reads nor writes the state kept here (a       *)
(* message sent or deleted, a profile looked up for a log line) belongs to *)
(* the step before it.  A clock value is the one of the step in which the  *)
(* code reads it: an argument is evaluated when the call is made, not when *)
(* the call returns.                                                       *)
(***************************************************************************)
EXTENDS Integers, Sequences, FiniteSets, TLC

\* ---------------------------------------------------------------- bounds
NumHandlers == 2
NumUsers == 2
MaxJoins == 3
MaxThreshold == 2
MaxAdminOps == 4
TickStep == 45
MaxTime == 95
MaxMsgs == 3
MaxRuns == 2
MaxFailed == 1

\* ------------------------------------------------------ program constants
DEFAULT_THRESHOLD == 10
DEFAULT_TIME_WINDOW == 60
\* setup.py 639: the smallest window process_window accepts
MIN_TIME_WINDOW == 10
\* setup.py 594, 637: the other limits of the two edits
MIN_JOIN_THRESHOLD == 1
MAX_JOIN_THRESHOLD == 1000
MAX_TIME_WINDOW == 600
\* scoring_auto_adjust.py 221: a run every 50 failures
TRIGGER_EVERY == 50
\* scoring_auto_adjust.py 32, 40: min_samples of the tuner's two statistics
MIN_SAMPLES == 30
\* scoring_auto_adjust.py 63-65, the two frequencies as percentages
HIGH_FREQ_THRESHOLD == 70
FALSE_POSITIVE_THRESHOLD == 50
ADJUSTMENT_STEP == 5
\* scoring_auto_adjust.py 166
MIN_THRESHOLD == 20
THRESHOLD_STEP == 5
\* scoring_auto_adjust.py 163
THRESHOLD_MARGIN == 10
\* captcha.py 168: seconds to answer
CAPTCHA_TIMEOUT == 60
\* database.py 239-240: parameters of add_pending_captcha after self
ADD_PENDING_PARAMS == 5
\* captcha.py 169-172: arguments send_captcha passes to it
SEND_CAPTCHA_ARGS == 6

DEFAULT_PROTECT_PREMIUM == TRUE

NULL == -1

Handlers == 1..NumHandlers
Users == 1..NumUsers
Thresholds == 1..MaxThreshold

VARIABLES
    now,            \* time.time(), in seconds
    chat,           \* the chats row of the protected chat
    sessions,       \* the attack_sessions rows of the chat, in insertion order
    joins,          \* JoinCounter._joins[chat_id]
    join_users,     \* JoinCounter._join_users[chat_id]
    pending,        \* the pending_captcha rows of the chat, by user
    member,         \* the gateway's view: is the user in the chat
    hs,             \* the running on_new_member coroutines and their locals
    hist,           \* history: every join ever recorded, never evicted
    nEvents,        \* history: join events delivered so far
    nActivations,   \* history: times protection_active went from 0 to 1
    okKicks,        \* history: removals by the detector's decision that succeeded
    nAdmin,         \* history: admin operations performed so far
    ah,             \* the running handle_text_message coroutines and their locals
    good_users,     \* the good_users rows of the chat, in insertion order
    failed_users,   \* the failed_users rows of the chat, in insertion order
    nMsgs,          \* history: text messages delivered so far
    accepts,        \* history: per user, times a handler took the accepting path
    removals,       \* history: per user, kicks by the captcha workflow that succeeded
    lastCount,      \* the result of the latest direct count_in_window call
    lastCutoff,     \* history: `now - window_seconds` of that call
    timers,         \* the _captcha_timeout_handler tasks send_captcha created
    handed,         \* history: per user, the scoring_score given to send_captcha
    issued,         \* history: per user, time of the latest challenge message sent, or NULL
    cfg,            \* the scoring columns of the chats row
    fstats,         \* failed_users rows stored before the process started, aggregated
    gstats,         \* good_users rows stored before the process started, aggregated
    tn              \* the auto_adjust_scoring runs and their locals

\* the captcha workflow's and the direct counter calls' own variables
\* send_captcha's own variables
issueVars == <<timers, handed, issued>>

\* the stored scoring configuration and statistics
scoringVars == <<cfg, fstats, gstats>>

aux == <<ah, good_users, failed_users, nMsgs, accepts, removals, lastCount,
         lastCutoff, issueVars, scoringVars, tn>>

vars == <<now, chat, sessions, joins, join_users, pending, member, hs,
          hist, nEvents, nActivations, okKicks, nAdmin, aux>>

\* ------------------------------------------------------------ users
\* User.is_premium is Optional[bool]; the three values are spread over the ids.
is_premium(u) ==
    IF u % 3 = 2 THEN "True" ELSE IF u % 3 = 0 THEN "None" ELSE "False"

\* Python truth value of an Optional[bool]
Truthy(p) == p = "True"

\* `user.is_premium or False`
OrFalse(p) == Truthy(p)

\* ------------------------------------------------------------ chats table
NoChat ==
    [exists |-> FALSE, threshold |-> 0, time_window |-> 0,
     protect_premium |-> FALSE, protection_active |-> FALSE]

\* database.py 46: the default of the scoring_weights column
DefaultWeights ==
    [max_lang_risk |-> 25, no_lang_risk |-> 15, max_id_risk |-> 20,
     premium_bonus |-> -20, no_avatar_risk |-> 15, one_avatar_risk |-> 5,
     no_username_risk |-> 5, weird_name_risk |-> 10, arabic_cjk_risk |-> 25]

\* database.py 44-47: scoring_threshold, scoring_weights, scoring_auto_adjust
DefaultCfg ==
    [scoring_threshold |-> 50, scoring_weights |-> DefaultWeights,
     scoring_auto_adjust |-> TRUE]

add_chat(threshold, time_window, protect_premium) ==
    [exists |-> TRUE, threshold |-> threshold, time_window |-> time_window,
     protect_premium |-> protect_premium, protection_active |-> FALSE]

get_chat == chat

update_chat_threshold(c, t) ==
    IF c.exists THEN [c EXCEPT !.threshold = t] ELSE c

update_chat_protect_premium(c, v) ==
    IF c.exists THEN [c EXCEPT !.protect_premium = v] ELSE c

\* UPDATE chats SET protection_active = :active WHERE protection_active = :other
SetProtectionChanged_NoCas(c, active) == c.exists

SetProtectionChanged(c, active) ==
    c.exists /\ c.protection_active # active

set_protection_active(c, active) ==
    IF c.exists /\ c.protection_active # active
    THEN [c EXCEPT !.protection_active = active]
    ELSE c

\* ------------------------------------------------------------ attack_sessions
OpenSessions(s) == {i \in DOMAIN s : s[i].end_time = NULL}

\* database.py 191-199: `start_time = start_time or int(time.time())`, t being
\* the clock when the call is made
start_attack_session(s, start_time, t) ==
    Append(s, [start_time |-> IF start_time = 0 THEN t ELSE start_time,
               end_time |-> NULL, total_kicked |-> 0])

\* database.py 201-207: the argument int(time.time()) is evaluated when the
\* call is made; t is that value
end_attack_session(s, t) ==
    [i \in DOMAIN s |->
        IF s[i].end_time = NULL THEN [s[i] EXCEPT !.end_time = t] ELSE s[i]]

\* the chat has sessions and each has its end_time
AllClosed(s) == s # <<>> /\ OpenSessions(s) = {}

\* database.py 209-215 without `AND end_time IS NULL` (mutant)
increment_kicked_AnySession(s) ==
    [i \in DOMAIN s |-> [s[i] EXCEPT !.total_kicked = s[i].total_kicked + 1]]

increment_kicked(s) ==
    [i \in DOMAIN s |->
        IF s[i].end_time = NULL
        THEN [s[i] EXCEPT !.total_kicked = s[i].total_kicked + 1]
        ELSE s[i]]

\* ------------------------------------------------------------ JoinCounter
\* `while queue and queue[0] < cutoff: queue.popleft()`
RECURSIVE PopOld(_, _)
PopOld(queue, cutoff) ==
    IF queue # <<>> /\ Head(queue) < cutoff
    THEN PopOld(Tail(queue), cutoff)
    ELSE queue

RECURSIVE PopOldUsers(_, _)
PopOldUsers(queue, cutoff) ==
    IF queue # <<>> /\ Head(queue).ts < cutoff
    THEN PopOldUsers(Tail(queue), cutoff)
    ELSE queue

add_join(queue, t) == Append(queue, t)

\* join_counter.py 34-35: `if user_id is not None`; NULL stands for None
add_join_user(queue, t, u, prem) ==
    IF u # NULL
    THEN Append(queue, [ts |-> t, user_id |-> u, is_premium |-> prem])
    ELSE queue

\* join_counter.py 80-85: both queues of the chat are dropped
clear_chat(queue) == <<>>

\* the queue count_in_window leaves behind; its result is the length
WindowQueue_NoEvict(queue, t, window_seconds) == queue

WindowQueue(queue, t, window_seconds) == PopOld(queue, t - window_seconds)

count_in_window(queue, t, window_seconds) ==
    Len(WindowQueue(queue, t, window_seconds))

UsersQueue_NoEvict(queue, t, window_seconds) == queue

UsersQueue(queue, t, window_seconds) == PopOldUsers(queue, t - window_seconds)

get_users_in_window(queue, t, window_seconds) ==
    UsersQueue(queue, t, window_seconds)

\* ------------------------------------------------------------ pending_captcha
NoPending ==
    [exists |-> FALSE, correct_answer |-> <<>>, message_id |-> 0, expires_at |-> 0]

remove_pending_captcha(p, u) == [p EXCEPT ![u] = NoPending]

get_pending_captcha(p, u) == p[u]

\* ------------------------------------------------------------ detector decisions
\* `user.is_premium and protect_premium`
PremiumProtected_IgnoreSetting(u, cd) == Truthy(is_premium(u))

PremiumProtected(u, cd) == Truthy(is_premium(u)) /\ cd.protect_premium

Idle ==
    [pc |-> "idle", user |-> 0, cd |-> NoChat, recent |-> 0,
     should_kick |-> FALSE, reason |-> "", attack_started |-> FALSE,
     attack_ended |-> FALSE, has_utk |-> FALSE, users_to_kick |-> <<>>,
     changed |-> FALSE, start_time |-> 0, kicked_count |-> 0, pa2 |-> FALSE,
     chat_data |-> FALSE,
     aborted |-> FALSE, call_time |-> 0, idx |-> 0, tasks |-> <<>>,
     \* history, read by no action
     prior |-> 0, tried_off |-> FALSE, tried_on |-> FALSE, opened |-> FALSE,
     kick_tried |-> FALSE, kick_ok |-> FALSE, utk_cutoff |-> 0, utk_n |-> 0,
     attempted |-> <<>>, inc_closed |-> FALSE]

\* detector.py 75-77: `if recent_joins < threshold: changed = await set_protection_active(False)`
MitCheck(r) ==
    IF r.recent < r.cd.threshold
    THEN [r EXCEPT !.pc = "d_cas_off", !.tried_off = TRUE]
    ELSE [r EXCEPT !.pc = "m_get_chat"]

\* detector.py 65-73: the decision on the current joiner while protection is active
MitDecide(r) ==
    IF PremiumProtected(r.user, r.cd)
    THEN MitCheck([r EXCEPT !.should_kick = FALSE, !.reason = "premium_protected"])
    ELSE [r EXCEPT !.should_kick = TRUE, !.reason = "protection_mode",
                   !.pc = "d_inc_mit"]

\* detector.py 99-100: `if recent_joins >= threshold: changed = await set_protection_active(True)`
NormalCheck(r) ==
    IF r.recent >= r.cd.threshold
    THEN [r EXCEPT !.pc = "d_cas_on", !.tried_on = TRUE]
    ELSE [r EXCEPT !.pc = "m_get_chat"]

\* detector.py 126-130: the current joiner on a detected attack, CAS won or lost
MarkCurrent(r) ==
    IF ~PremiumProtected(r.user, r.cd)
    THEN [r EXCEPT !.should_kick = TRUE, !.reason = "attack_detected",
                   !.pc = "d_inc_att"]
    ELSE [r EXCEPT !.pc = "m_get_chat"]

\* the mutant: lines 126-130 indented under `if changed:`
AfterCasOn_OnlyWinner(r, changed, t) ==
    IF changed
    THEN [r EXCEPT !.changed = TRUE, !.start_time = t, !.call_time = t,
                   !.pc = "d_start_session"]
    ELSE [r EXCEPT !.changed = FALSE, !.pc = "m_get_chat"]

\* detector.py 100-105 and 126-130: after the compare-and-set to Mitigating.
\* The winner reads the clock into attack_start_time (104) and calls
\* start_attack_session (105), which reads it again if that value is 0
\* (database.py 193), before anything is awaited
AfterCasOn(r, changed, t) ==
    IF changed
    THEN [r EXCEPT !.changed = TRUE, !.start_time = t, !.call_time = t,
                   !.pc = "d_start_session"]
    ELSE MarkCurrent([r EXCEPT !.changed = FALSE])

\* detector.py 117-124: the window's users, without the current one and the
\* premium-protected ones
UsersToKick_KeepCurrent(users_in_window, u, cd) ==
    LET keep(e) == ~(e.is_premium /\ cd.protect_premium)
        kept == SelectSeq(users_in_window, keep)
    IN  [i \in DOMAIN kept |-> kept[i].user_id]

UsersToKick(users_in_window, u, cd) ==
    LET keep(e) == e.user_id # u /\ ~(e.is_premium /\ cd.protect_premium)
        kept == SelectSeq(users_in_window, keep)
    IN  [i \in DOMAIN kept |-> kept[i].user_id]

\* ------------------------------------------------------------ on_new_member
\* members.py 128: `if result['should_kick'] and not result['attack_ended']`
KickCurrent_IgnoreEnd(r) == r.should_kick

KickCurrent(r) == r.should_kick /\ ~r.attack_ended

\* members.py 138: the detector's part of the handler is over.  With the
\* scoring_enabled and captcha_enabled of the row 0 (the values add_chat
\* stores) the conditions of 139 and 217 are false and the handler returns
\* (Return); JoinScore is the handler going on with other values
Tail2(r) == [r EXCEPT !.pc = "done"]

\* members.py 126-136: cleanup_pending_captcha is called and awaits
\* get_pending_captcha
Tail1(r) ==
    IF KickCurrent(r) THEN [r EXCEPT !.pc = "m_cleanup"] ELSE Tail2(r)

\* members.py 119-124
Tail0(r) ==
    IF r.attack_ended THEN [r EXCEPT !.pc = "m_end_notify"] ELSE Tail1(r)

\* ------------------------------------------------------------ join handler steps
Set(h, r) == hs' = [hs EXCEPT ![h] = r]

\* members.py 58-72: a join event is delivered and the handler awaits get_chat
OnNewMember(h, u) ==
    /\ hs[h].pc = "idle"
    /\ nEvents < MaxJoins
    /\ nEvents' = nEvents + 1
    /\ member' = [member EXCEPT ![u] = TRUE]
    /\ Set(h, [Idle EXCEPT !.pc = "d_get_chat", !.user = u])
    /\ UNCHANGED <<now, chat, sessions, joins, join_users, pending, hist,
                   nActivations, okKicks, nAdmin, aux>>

\* detector.py 28-39 with the join counted before the chat is looked up
\* (mutant)
DetGetChat_CountsFirst(h) ==
    /\ hs[h].pc = "d_get_chat"
    /\ LET r  == hs[h]
           cd == get_chat
           p  == OrFalse(is_premium(r.user))
           q  == WindowQueue(add_join(joins, now), now, cd.time_window)
           r1 == [r EXCEPT !.cd = cd, !.recent = Len(q),
                           !.prior = count_in_window(joins, now, cd.time_window)]
       IN  /\ joins' = IF cd.exists THEN q ELSE add_join(joins, now)
           /\ join_users' = add_join_user(join_users, now, r.user, p)
           /\ hist' = Append(hist, [ts |-> now, user_id |-> r.user,
                                    is_premium |-> p])
           /\ Set(h, IF ~cd.exists
                     THEN [r EXCEPT !.reason = "chat_not_protected",
                                    !.pc = "done"]
                     ELSE IF cd.protection_active THEN MitDecide(r1)
                                                  ELSE NormalCheck(r1))
    /\ UNCHANGED <<now, chat, sessions, pending, member, nEvents,
                   nActivations, okKicks, nAdmin, aux>>

\* detector.py 28-100: get_chat returns; the join is recorded and counted
DetGetChat(h) ==
    /\ hs[h].pc = "d_get_chat"
    /\ LET r  == hs[h]
           cd == get_chat
           p  == OrFalse(is_premium(r.user))
           q  == WindowQueue(add_join(joins, now), now, cd.time_window)
           r1 == [r EXCEPT !.cd = cd, !.recent = Len(q),
                           !.prior = count_in_window(joins, now, cd.time_window)]
       IN  IF ~cd.exists
           THEN /\ Set(h, [r EXCEPT !.reason = "chat_not_protected", !.pc = "done"])
                /\ UNCHANGED <<joins, join_users, hist>>
           ELSE /\ joins' = q
                /\ join_users' = add_join_user(join_users, now, r.user, p)
                /\ hist' = Append(hist, [ts |-> now, user_id |-> r.user,
                                         is_premium |-> p])
                /\ Set(h, IF cd.protection_active THEN MitDecide(r1)
                                                  ELSE NormalCheck(r1))
    /\ UNCHANGED <<now, chat, sessions, pending, member, nEvents,
                   nActivations, okKicks, nAdmin, aux>>

\* detector.py 73-77: increment_kicked returns
DetIncMit(h) ==
    /\ hs[h].pc = "d_inc_mit"
    /\ sessions' = increment_kicked(sessions)
    /\ Set(h, MitCheck([hs[h] EXCEPT
                          !.inc_closed = @ \/ AllClosed(sessions)]))
    /\ UNCHANGED <<now, chat, joins, join_users, pending, member, hist,
                   nEvents, nActivations, okKicks, nAdmin, aux>>

\* detector.py 77-80: set_protection_active(False) returns; the winner calls
\* end_attack_session, whose argument is the clock of this step
DetCasOff(h) ==
    /\ hs[h].pc = "d_cas_off"
    /\ chat' = set_protection_active(chat, FALSE)
    /\ Set(h, IF SetProtectionChanged(chat, FALSE)
              THEN [hs[h] EXCEPT !.changed = TRUE, !.call_time = now,
                                 !.pc = "d_end_session"]
              ELSE [hs[h] EXCEPT !.changed = FALSE, !.pc = "m_get_chat"])
    /\ UNCHANGED <<now, sessions, joins, join_users, pending, member, hist,
                   nEvents, nActivations, okKicks, nAdmin, aux>>

\* detector.py 80-94: end_attack_session returns; the summary is read and logged
DetEndSession(h) ==
    /\ hs[h].pc = "d_end_session"
    /\ sessions' = end_attack_session(sessions, hs[h].call_time)
    /\ Set(h, [hs[h] EXCEPT !.attack_ended = TRUE, !.call_time = 0,
                            !.pc = "m_get_chat"])
    /\ UNCHANGED <<now, chat, joins, join_users, pending, member, hist,
                   nEvents, nActivations, okKicks, nAdmin, aux>>

\* detector.py 100-105, 126-130: set_protection_active(True) returns
DetCasOn(h) ==
    /\ hs[h].pc = "d_cas_on"
    /\ chat' = set_protection_active(chat, TRUE)
    /\ nActivations' = nActivations +
           (IF chat'.protection_active /\ ~chat.protection_active THEN 1 ELSE 0)
    /\ Set(h, AfterCasOn(hs[h], SetProtectionChanged(chat, TRUE), now))
    /\ UNCHANGED <<now, sessions, joins, join_users, pending, member, hist,
                   nEvents, okKicks, nAdmin, aux>>

\* detector.py 105-130: start_attack_session returns; the window's users are collected
DetStartSession(h) ==
    /\ hs[h].pc = "d_start_session"
    /\ LET r  == hs[h]
           uq == get_users_in_window(join_users, now, r.cd.time_window)
       IN  /\ sessions' = start_attack_session(sessions, r.start_time,
                                                r.call_time)
           /\ join_users' = uq
           /\ Set(h, MarkCurrent(
                  [r EXCEPT !.attack_started = TRUE, !.opened = TRUE,
                            !.call_time = 0,
                            !.has_utk = TRUE,
                            !.users_to_kick = UsersToKick(uq, r.user, r.cd),
                            !.utk_cutoff = now - r.cd.time_window,
                            !.utk_n = Len(hist)]))
    /\ UNCHANGED <<now, chat, joins, pending, member, hist, nEvents,
                   nActivations, okKicks, nAdmin, aux>>

\* detector.py 130-132: increment_kicked returns and the detector returns its result
DetIncAtt(h) ==
    /\ hs[h].pc = "d_inc_att"
    /\ sessions' = increment_kicked(sessions)
    /\ Set(h, [hs[h] EXCEPT !.pc = "m_get_chat",
                            !.inc_closed = @ \/ AllClosed(sessions)])
    /\ UNCHANGED <<now, chat, joins, join_users, pending, member, hist,
                   nEvents, nActivations, okKicks, nAdmin, aux>>

\* members.py 79-91: get_chat returns; the flags are read off chat_data, and
\* are false without a row
MemGetChat(h) ==
    /\ hs[h].pc = "m_get_chat"
    /\ LET r == [hs[h] EXCEPT !.pa2 = chat.exists /\ chat.protection_active,
                              !.chat_data = chat.exists]
       IN  Set(h, IF r.attack_started THEN [r EXCEPT !.pc = "m_as_get_chat"]
                                      ELSE Tail0(r))
    /\ UNCHANGED <<now, chat, sessions, joins, join_users, pending, member,
                   hist, nEvents, nActivations, okKicks, nAdmin, aux>>

\* members.py 91-93: get_chat returns, the window is counted for the admins'
\* notice and get_attack_start_message is awaited; a chat removed meanwhile
\* makes `None['time_window']` raise
MemAsGetChat(h) ==
    /\ hs[h].pc = "m_as_get_chat"
    /\ IF chat.exists
       THEN /\ joins' = WindowQueue(joins, now, chat.time_window)
            /\ Set(h, [hs[h] EXCEPT !.pc = "m_as_msg"])
       ELSE /\ joins' = joins
            /\ Set(h, [hs[h] EXCEPT !.aborted = TRUE, !.pc = "done"])
    /\ UNCHANGED <<now, chat, sessions, join_users, pending, member, hist,
                   nEvents, nActivations, okKicks, nAdmin, aux>>

Range(f) == {f[i] : i \in DOMAIN f}

\* members.py 108-117: gather returns when every kick coroutine has returned;
\* kicked_count is the number of True results, and one increment_kicked is
\* awaited per kick counted
AfterKickTask(r) ==
    IF \E i \in DOMAIN r.tasks : r.tasks[i] \in {"ban", "unban"} THEN r
    ELSE LET n  == Cardinality({i \in DOMAIN r.tasks : r.tasks[i] = "kicked"})
             r1 == [r EXCEPT !.kicked_count = n, !.tasks = <<>>]
         IN  IF n > 0 THEN [r1 EXCEPT !.pc = "m_as_inc"] ELSE Tail0(r1)

\* members.py 99-108: the loop goes to its next user and awaits the
\* get_pending_captcha of cleanup_pending_captcha; after the last user the
\* kick coroutines (fewer than 50: one batch, no sleep) are gathered, and each
\* runs up to its ban_chat_member.  With no user to kick nothing is gathered
NextCleanup(r) ==
    IF r.idx < Len(r.users_to_kick)
    THEN [r EXCEPT !.idx = r.idx + 1, !.pc = "m_as_cleanup"]
    ELSE IF r.users_to_kick = <<>>
    THEN Tail0([r EXCEPT !.idx = 0])
    ELSE [r EXCEPT !.idx = 0, !.pc = "m_as_gather",
                   !.tasks = [i \in DOMAIN r.users_to_kick |-> "ban"],
                   !.attempted = r.users_to_kick]

\* members.py 93-100 (detector.py 158-173): the get_chat of
\* get_attack_start_message returns.  For a chat removed meanwhile
\* `chat_data['threshold']` raises TypeError, which ends the handler with
\* nobody kicked; else the admins are notified and the loop over
\* users_to_kick begins
MemAsMessage(h) ==
    /\ hs[h].pc = "m_as_msg"
    /\ Set(h, IF chat.exists
              THEN NextCleanup(hs[h])
              ELSE [hs[h] EXCEPT !.aborted = TRUE, !.pc = "done"])
    /\ UNCHANGED <<now, chat, sessions, joins, join_users, pending, member,
                   hist, nEvents, nActivations, okKicks, nAdmin, aux>>

\* members.py 100 (36-44): the get_pending_captcha of the user's cleanup
\* returns; without a row the cleanup returns, with one the captcha message
\* is deleted and remove_pending_captcha is awaited
MemAsCleanup(h) ==
    /\ hs[h].pc = "m_as_cleanup"
    /\ LET r == hs[h]
           u == r.users_to_kick[r.idx]
       IN  Set(h, IF get_pending_captcha(pending, u).exists
                  THEN [r EXCEPT !.pc = "m_as_delete"]
                  ELSE NextCleanup(r))
    /\ UNCHANGED <<now, chat, sessions, joins, join_users, pending, member,
                   hist, nEvents, nActivations, okKicks, nAdmin, aux>>

\* members.py 100 (44): remove_pending_captcha of the user's cleanup returns
MemAsDelete(h) ==
    /\ hs[h].pc = "m_as_delete"
    /\ pending' = remove_pending_captcha(pending,
                                         hs[h].users_to_kick[hs[h].idx])
    /\ Set(h, NextCleanup(hs[h]))
    /\ UNCHANGED <<now, chat, sessions, joins, join_users, member, hist,
                   nEvents, nActivations, okKicks, nAdmin, aux>>

\* members.py 108 (25): the ban_chat_member of the i-th kick coroutine
\* returns, and the user is out of the chat, or raises, and the coroutine
\* returns False
MemAsBan(h, i) ==
    /\ hs[h].pc = "m_as_gather"
    /\ i \in DOMAIN hs[h].tasks
    /\ hs[h].tasks[i] = "ban"
    /\ \E ok \in BOOLEAN :
        /\ member' = [member EXCEPT ![hs[h].users_to_kick[i]] = @ /\ ~ok]
        /\ Set(h, AfterKickTask([hs[h] EXCEPT
                     !.tasks[i] = IF ok THEN "unban" ELSE "failed"]))
    /\ UNCHANGED <<now, chat, sessions, joins, join_users, pending, hist,
                   nEvents, nActivations, okKicks, nAdmin, aux>>

\* members.py 108 (26-31): the unban_chat_member of the i-th kick coroutine
\* returns, and the coroutine returns True, or raises, and it returns False
MemAsUnban(h, i) ==
    /\ hs[h].pc = "m_as_gather"
    /\ i \in DOMAIN hs[h].tasks
    /\ hs[h].tasks[i] = "unban"
    /\ \E ok \in BOOLEAN :
        /\ okKicks' = okKicks + (IF ok THEN 1 ELSE 0)
        /\ Set(h, AfterKickTask([hs[h] EXCEPT
                     !.tasks[i] = IF ok THEN "kicked" ELSE "failed"]))
    /\ UNCHANGED <<now, chat, sessions, joins, join_users, pending, member,
                   hist, nEvents, nActivations, nAdmin, aux>>

\* members.py 115-117: one increment_kicked per successful kick
MemAsInc(h) ==
    /\ hs[h].pc = "m_as_inc"
    /\ sessions' = increment_kicked(sessions)
    /\ LET r == [hs[h] EXCEPT !.kicked_count = hs[h].kicked_count - 1,
                              !.inc_closed = @ \/ AllClosed(sessions)]
       IN  Set(h, IF r.kicked_count > 0 THEN r ELSE Tail0(r))
    /\ UNCHANGED <<now, chat, joins, join_users, pending, member, hist,
                   nEvents, nActivations, okKicks, nAdmin, aux>>

\* members.py 120-128: the admins are told that the attack ended
MemEndNotify(h) ==
    /\ hs[h].pc = "m_end_notify"
    /\ Set(h, Tail1(hs[h]))
    /\ UNCHANGED <<now, chat, sessions, joins, join_users, pending, member,
                   hist, nEvents, nActivations, okKicks, nAdmin, aux>>

\* members.py 130 (19-25): kick_user_safe is called and awaits ban_chat_member
StartKick(r) == [r EXCEPT !.pc = "m_ban", !.kick_tried = TRUE]

\* members.py 129 (36-44): the get_pending_captcha of the current joiner's
\* cleanup returns; without a row the cleanup returns, with one the captcha
\* message is deleted and remove_pending_captcha is awaited
MemCleanup(h) ==
    /\ hs[h].pc = "m_cleanup"
    /\ Set(h, IF get_pending_captcha(pending, hs[h].user).exists
              THEN [hs[h] EXCEPT !.pc = "m_cleanup_delete"]
              ELSE StartKick(hs[h]))
    /\ UNCHANGED <<now, chat, sessions, joins, join_users, pending, member,
                   hist, nEvents, nActivations, okKicks, nAdmin, aux>>

\* members.py 129 (44): remove_pending_captcha of the current joiner returns
MemCleanupDelete(h) ==
    /\ hs[h].pc = "m_cleanup_delete"
    /\ pending' = remove_pending_captcha(pending, hs[h].user)
    /\ Set(h, StartKick(hs[h]))
    /\ UNCHANGED <<now, chat, sessions, joins, join_users, member, hist,
                   nEvents, nActivations, okKicks, nAdmin, aux>>

\* members.py 130-136 (25): ban_chat_member of the current joiner returns, and
\* the user is out of the chat, or raises, and kick_user_safe returns False
MemBan(h) ==
    /\ hs[h].pc = "m_ban"
    /\ \E ok \in BOOLEAN :
        /\ member' = [member EXCEPT ![hs[h].user] = @ /\ ~ok]
        /\ Set(h, [hs[h] EXCEPT !.pc = IF ok THEN "m_unban" ELSE "done"])
    /\ UNCHANGED <<now, chat, sessions, joins, join_users, pending, hist,
                   nEvents, nActivations, okKicks, nAdmin, aux>>

\* members.py 130-136 (26-31): unban_chat_member of the current joiner
\* returns, and kick_user_safe returns True, or raises, and it returns False
MemUnban(h) ==
    /\ hs[h].pc = "m_unban"
    /\ \E ok \in BOOLEAN :
        /\ okKicks' = okKicks + (IF ok THEN 1 ELSE 0)
        /\ Set(h, [hs[h] EXCEPT !.kick_ok = ok, !.pc = "done"])
    /\ UNCHANGED <<now, chat, sessions, joins, join_users, pending, member,
                   hist, nEvents, nActivations, nAdmin, aux>>

\* the coroutine of the event ends
Return(h) ==
    /\ hs[h].pc = "done"
    /\ Set(h, Idle)
    /\ UNCHANGED <<now, chat, sessions, joins, join_users, pending, member,
                   hist, nEvents, nActivations, okKicks, nAdmin, aux>>

\* ------------------------------------------------------------ admin operations
\* setup.py 261-268, database.py 120-129: process_chat_id adds the chat with
\* the defaults.  INSERT OR REPLACE replaces a row the chat already has: the
\* columns the statement does not name, the scoring columns among them, take
\* their column defaults
AddChat ==
    /\ nAdmin < MaxAdminOps
    /\ nAdmin' = nAdmin + 1
    /\ chat' = add_chat(DEFAULT_THRESHOLD, DEFAULT_TIME_WINDOW,
                        DEFAULT_PROTECT_PREMIUM)
    /\ cfg' = DefaultCfg
    /\ UNCHANGED <<now, sessions, joins, join_users, pending, member, hs, hist,
                   nEvents, nActivations, okKicks, ah, good_users,
                   failed_users, nMsgs, accepts, removals, lastCount,
                   lastCutoff, issueVars, fstats, gstats, tn>>

\* setup.py 551-555
RemoveChat ==
    /\ nAdmin < MaxAdminOps
    /\ nAdmin' = nAdmin + 1
    /\ chat.exists
    /\ chat' = NoChat
    /\ UNCHANGED <<now, sessions, joins, join_users, pending, member, hs, hist,
                   nEvents, nActivations, okKicks, aux>>

\* setup.py 583-601: a threshold of 1..1000 is stored
ProcessThreshold(t) ==
    /\ nAdmin < MaxAdminOps
    /\ nAdmin' = nAdmin + 1
    /\ chat' = update_chat_threshold(chat, t)
    /\ chat' # chat
    /\ UNCHANGED <<now, sessions, joins, join_users, pending, member, hs, hist,
                   nEvents, nActivations, okKicks, aux>>

\* time passes
Tick ==
    /\ now + TickStep <= MaxTime
    /\ now' = now + TickStep
    /\ UNCHANGED <<chat, sessions, joins, join_users, pending, member, hs, hist,
                   nEvents, nActivations, okKicks, nAdmin, aux>>

\* ------------------------------------------------------------ JoinCounter, called directly
Windows == {MIN_TIME_WINDOW, DEFAULT_TIME_WINDOW}

counterFrame == <<chat, sessions, pending, member, hs, nEvents, nActivations,
                  okKicks, nAdmin, ah, good_users, failed_users, nMsgs, accepts,
                  removals, issueVars, scoringVars, tn>>

\* join_counter.py 22-35: add_join(chat_id, user_id, is_premium), or
\* add_join(chat_id) with user_id left at None (u = NULL)
CtrAddJoin(u) ==
    /\ Len(hist) < MaxJoins
    /\ joins' = add_join(joins, now)
    /\ join_users' = add_join_user(join_users, now, u,
                                   u # NULL /\ OrFalse(is_premium(u)))
    /\ hist' = Append(hist, [ts |-> now, user_id |-> u,
                             is_premium |-> u # NULL /\ OrFalse(is_premium(u))])
    /\ UNCHANGED <<now, lastCount, lastCutoff, counterFrame>>

\* join_counter.py 80-85: clear_chat, which no code of the bot calls
CtrClearChat ==
    /\ joins' = clear_chat(joins)
    /\ join_users' = clear_chat(join_users)
    /\ UNCHANGED <<now, hist, lastCount, lastCutoff, counterFrame>>

\* join_counter.py 37-57
CtrCountInWindow(w) ==
    /\ joins' = WindowQueue(joins, now, w)
    /\ lastCount' = count_in_window(joins, now, w)
    /\ lastCutoff' = now - w
    /\ UNCHANGED <<now, join_users, hist, counterFrame>>

\* join_counter.py 59-78
CtrGetUsersInWindow(w) ==
    /\ join_users' = get_users_in_window(join_users, now, w)
    /\ join_users' # join_users
    /\ UNCHANGED <<now, joins, hist, lastCount, lastCutoff, counterFrame>>

\* ------------------------------------------------------------ captcha answers
Digits == {"0", "1", "2", "3", "4", "5", "6", "7", "8", "9"}

\* decimal digits outside ASCII, which str.isdigit accepts and int() reads:
\* ARABIC-INDIC DIGIT THREE, FULLWIDTH DIGIT THREE, DEVANAGARI DIGIT SEVEN
UnicodeDecimals == {"arabic3", "fullwidth3", "devanagari7"}

\* a text is the sequence of its characters; "sup2" stands for the character
\* SUPERSCRIPT TWO, a digit to str.isdigit and none to int()
Texts == {<<"7">>, <<"a", "7">>, <<"8">>, <<"a">>, <<"7", "sup2">>,
          <<"devanagari7">>}

PendingRow(answer) ==
    [exists |-> TRUE, correct_answer |-> answer, message_id |-> 1, expires_at |-> 0]

\* captcha.py 21-33: keep the characters str.isdigit accepts (strip() drops
\* none of them); <<>> stands for None
IsDigit(c) == c \in Digits \cup UnicodeDecimals \cup {"sup2"}

\* the mutant without the filter
parse_captcha_answer_Unfiltered(text) == text

parse_captcha_answer(text) == SelectSeq(text, IsDigit)

add_outcome(rows, u) == Append(rows, [user_id |-> u])

\* database.py 61-70, 239-247: does the pending_captcha row hold the score of
\* its challenge; the table has no scoring_score column
HasStoredScore(row) == "scoring_score" \in DOMAIN row

\* captcha.py 318: `pending.get('scoring_score', 0)` of a pending_captcha row
PendingScore(row) ==
    IF HasStoredScore(row) THEN row["scoring_score"] ELSE 0

add_good_user(rows, u, scoring_score) ==
    Append(rows, [user_id |-> u, scoring_score |-> scoring_score])

RowsOf(rows, u) == Cardinality({i \in DOMAIN rows : rows[i].user_id = u})

\* ------------------------------------------------------------ scoring configuration
\* the statistics auto_adjust_scoring compares with HIGH_FREQ_THRESHOLD
Features ==
    {"no_username_rate", "arabic_cjk_rate", "weird_name_rate", "no_avatar_rate",
     "one_avatar_rate", "no_language_rate", "id_above_p99_rate",
     "id_above_p95_rate"}

\* no failed_users or good_users row
NoStats == [total |-> 0, n |-> [f \in Features |-> 0], score_sum |-> 0]

\* ------------------------------------------------------------ auto-adjust trigger
\* database.py 414-421 with min_samples = 1: the failed_users rows of the last
\* 7 days (every row of the model is that recent)
FailedTotal == fstats.total + Len(failed_users)

\* scoring_auto_adjust.py 209-221, the mutant without `% 50 == 0`
should_trigger_AnyCount(total) == total >= 1 /\ total > 0

should_trigger_auto_adjust(total) ==
    total >= 1 /\ total > 0 /\ total % TRIGGER_EVERY = 0

\* an auto_adjust_scoring coroutine that was not started; config, failed and
\* good hold what the coroutine read, after what it wrote
NoRun ==
    [pc |-> "none", trig_total |-> 0, config |-> <<>>, failed |-> <<>>,
     good |-> <<>>, p95 |-> FALSE, p99 |-> FALSE, computed |-> FALSE,
     aborted |-> FALSE, wrote |-> FALSE, after |-> <<>>]

FreeRuns == {r \in DOMAIN tn : tn[r].pc = "none"}

\* captcha.py 245, 354: auto_adjust_scoring(chat_id) is called or made a task
StartRun(runs, total) ==
    LET r == CHOOSE x \in DOMAIN runs :
                 runs[x].pc = "none" /\ \A y \in DOMAIN runs :
                                           runs[y].pc = "none" => x <= y
    IN  [runs EXCEPT ![r] = [NoRun EXCEPT !.pc = "a_get_config",
                                          !.trig_total = total]]

\* the handler's step at captcha.py 244-245 / 353-354
TriggerStep(k) ==
    /\ should_trigger_auto_adjust(FailedTotal) => FreeRuns # {}
    /\ tn' = IF should_trigger_auto_adjust(FailedTotal)
             THEN StartRun(tn, FailedTotal) ELSE tn
    /\ ah' = [ah EXCEPT ![k] =
                 [ah[k] EXCEPT !.trig_checked = TRUE,
                               !.trig_total = FailedTotal,
                               !.started = should_trigger_auto_adjust(FailedTotal),
                               !.pc = "t_done"]]

\* ------------------------------------------------------------ auto_adjust_scoring
Min(a, b) == IF a <= b THEN a ELSE b
Max(a, b) == IF a >= b THEN a ELSE b

\* database.py 45: the default of chats.scoring_lang_distribution, which no
\* code writes.  A dict is the sequence of its <<key, value>> pairs in the
\* order of insertion, the order in which Python iterates it; a share is kept
\* in hundredths
DefaultLangDistribution == <<<<<<"r", "u">>, 80>>, <<<<"e", "n">>, 20>>>>

\* database.py 360-373: the keys of the dict get_scoring_config returns
ScoringConfigKeys ==
    {"threshold", "lang_distribution", "max_lang_risk", "no_lang_risk",
     "max_id_risk", "premium_bonus", "no_avatar_risk", "one_avatar_risk",
     "no_username_risk", "weird_name_risk", "arabic_cjk_risk", "auto_adjust"}

\* database.py 360-373: the dict built from the stored row (every stored
\* scoring_weights of the model has the nine keys, so no default of
\* weights.get applies)
scoring_config_dict(c) ==
    [threshold |-> c.scoring_threshold,
     lang_distribution |-> DefaultLangDistribution,
     max_lang_risk |-> c.scoring_weights.max_lang_risk,
     no_lang_risk |-> c.scoring_weights.no_lang_risk,
     max_id_risk |-> c.scoring_weights.max_id_risk,
     premium_bonus |-> c.scoring_weights.premium_bonus,
     no_avatar_risk |-> c.scoring_weights.no_avatar_risk,
     one_avatar_risk |-> c.scoring_weights.one_avatar_risk,
     no_username_risk |-> c.scoring_weights.no_username_risk,
     weird_name_risk |-> c.scoring_weights.weird_name_risk,
     arabic_cjk_risk |-> c.scoring_weights.arabic_cjk_risk,
     auto_adjust |-> c.scoring_auto_adjust]

\* None, the result for a chat without a row
NoConfig == <<>>

\* `not config` of a dict or None (the dict of 360-373 is never empty)
IsNone(d) == DOMAIN d = {}

\* database.py 340-373: `if not row: return None`, else the dict of the row
\* ch with the scoring columns c.  The branch of 352-355 for a linked chat is
\* not taken: is_linked_chat is 0 in every row (set_linked_chat_scoring, the
\* only writer, has no caller)
get_scoring_config(ch, c) ==
    IF ~ch.exists THEN NoConfig ELSE scoring_config_dict(c)

\* scoring_auto_adjust.py 47-56: the keys config[...] is subscripted with
CurrentWeightKeys ==
    {"no_username_risk", "arabic_cjk_risk", "weird_name_risk", "no_avatar_risk",
     "one_avatar_risk", "no_lang_risk", "max_id_risk", "random_username_risk"}

\* a subscript with a key the dict lacks raises KeyError
KeyErrorRaised == ~(CurrentWeightKeys \subseteq ScoringConfigKeys)

\* the weights auto_adjust_scoring may raise
AdjustedKeys ==
    {"no_username_risk", "arabic_cjk_risk", "weird_name_risk", "no_avatar_risk",
     "one_avatar_risk", "no_lang_risk", "max_id_risk"}

\* scoring_auto_adjust.py 77, 86, 95, 104, 113, 130, 143: the second argument
\* of min()
Caps ==
    [no_username_risk |-> 30, arabic_cjk_risk |-> 40, weird_name_risk |-> 25,
     no_avatar_risk |-> 30, one_avatar_risk |-> 15, no_lang_risk |-> 25,
     max_id_risk |-> 30]

\* None, the result under min_samples rows
NoneStats == [exists |-> FALSE, total |-> 0, n |-> [f \in {} |-> 0], avg |-> 0]

\* database.py 544-557: the good_users rows of the last 7 days
GoodUsersTotal == gstats.total + Len(good_users)

\* database.py 413-423: the first SELECT of get_failed_captcha_stats counts the
\* rows; under min_samples the result is None, else the dict `stats` is begun
\* (a rate it does not hold yet is kept as 0 here)
failed_count(min_samples) ==
    IF FailedTotal < min_samples THEN NoneStats
    ELSE [exists |-> TRUE, total |-> FailedTotal,
          n |-> [f \in Features |-> 0], avg |-> 0]

\* a later SELECT of get_failed_captcha_stats puts the counts behind the
\* rates fs into the dict: the rows are read as they are by then, the rate is
\* the count divided by the total read first
failed_rates(stats, fs) ==
    [stats EXCEPT !.n = [f \in Features |->
                            IF f \in fs THEN fstats.n[f] ELSE @[f]]]

\* database.py 481-487: int(AVG(scoring_score)) over the rows present, 0 for
\* an average of 0 or of no row
failed_avg(stats) ==
    [stats EXCEPT !.avg = IF FailedTotal = 0 THEN 0
                          ELSE fstats.score_sum \div FailedTotal]

\* database.py 684-700 (505-507): the third SELECT of get_scoring_stats: a
\* table of count rows has the rows of index int(count * 0.95) and
\* int(count * 0.99), both under count, exactly when it has a row
has_percentiles == GoodUsersTotal > 0

\* database.py 562-576: only these two rates of the good users are computed
\* among the statistics the tuner looks at
GoodFeatures == {"no_username_rate", "no_language_rate"}

\* database.py 552-560: the first SELECT of get_good_users_stats
good_count(min_samples) ==
    IF GoodUsersTotal < min_samples THEN NoneStats
    ELSE [exists |-> TRUE, total |-> GoodUsersTotal,
          n |-> [f \in GoodFeatures |-> 0], avg |-> 0]

\* database.py 562-576: a later SELECT reads the rows as they are by then
good_rates(stats, fs) ==
    [stats EXCEPT !.n = [f \in GoodFeatures |->
                            IF f \in fs THEN gstats.n[f] ELSE @[f]]]

\* stats.get(f, 0) > pct / 100, the rate being count / total
RateAbove(stats, f, pct) ==
    /\ f \in DOMAIN stats.n
    /\ stats.total > 0
    /\ stats.n[f] * 100 > pct * stats.total

\* scoring_auto_adjust.py 70-71, 123-124
FalsePositive(good, f) ==
    good.exists /\ RateAbove(good, f, FALSE_POSITIVE_THRESHOLD)

\* scoring_auto_adjust.py 76-77 and the like
Raise(old, cap) == Min(old + ADJUSTMENT_STEP, cap)

\* scoring_auto_adjust.py 58-155: updated_weights
updated_weights(config, failed, good) ==
    [no_username_risk |->
        IF /\ RateAbove(failed, "no_username_rate", HIGH_FREQ_THRESHOLD)
           /\ ~FalsePositive(good, "no_username_rate")
        THEN Raise(config.no_username_risk, Caps.no_username_risk)
        ELSE config.no_username_risk,
     arabic_cjk_risk |->
        IF RateAbove(failed, "arabic_cjk_rate", HIGH_FREQ_THRESHOLD)
        THEN Raise(config.arabic_cjk_risk, Caps.arabic_cjk_risk)
        ELSE config.arabic_cjk_risk,
     weird_name_risk |->
        IF RateAbove(failed, "weird_name_rate", HIGH_FREQ_THRESHOLD)
        THEN Raise(config.weird_name_risk, Caps.weird_name_risk)
        ELSE config.weird_name_risk,
     no_avatar_risk |->
        IF RateAbove(failed, "no_avatar_rate", HIGH_FREQ_THRESHOLD)
        THEN Raise(config.no_avatar_risk, Caps.no_avatar_risk)
        ELSE config.no_avatar_risk,
     one_avatar_risk |->
        IF RateAbove(failed, "one_avatar_rate", HIGH_FREQ_THRESHOLD)
        THEN Raise(config.one_avatar_risk, Caps.one_avatar_risk)
        ELSE config.one_avatar_risk,
     no_lang_risk |->
        IF /\ RateAbove(failed, "no_language_rate", HIGH_FREQ_THRESHOLD)
           /\ ~FalsePositive(good, "no_language_rate")
        THEN Raise(config.no_lang_risk, Caps.no_lang_risk)
        ELSE config.no_lang_risk,
     max_id_risk |->
        IF RateAbove(failed, "id_above_p99_rate", HIGH_FREQ_THRESHOLD)
        THEN Raise(config.max_id_risk, Caps.max_id_risk)
        ELSE IF RateAbove(failed, "id_above_p95_rate", HIGH_FREQ_THRESHOLD)
             THEN Raise(config.max_id_risk, Caps.max_id_risk)
             ELSE config.max_id_risk]

\* scoring_auto_adjust.py 60, 78-81 and the like
weights_changed(config, updated) ==
    \E w \in AdjustedKeys : updated[w] # config[w]

\* scoring_auto_adjust.py 159-170
new_threshold(config, failed) ==
    IF failed.avg > 0 /\ failed.avg >= config.threshold - THRESHOLD_MARGIN
    THEN Max(config.threshold - THRESHOLD_STEP, MIN_THRESHOLD)
    ELSE config.threshold

\* scoring_auto_adjust.py 181-191
all_weights(config, updated) ==
    [max_lang_risk |-> config.max_lang_risk,
     no_lang_risk |-> updated.no_lang_risk,
     max_id_risk |-> updated.max_id_risk,
     premium_bonus |-> config.premium_bonus,
     no_avatar_risk |-> updated.no_avatar_risk,
     one_avatar_risk |-> updated.one_avatar_risk,
     no_username_risk |-> updated.no_username_risk,
     weird_name_risk |-> updated.weird_name_risk,
     arabic_cjk_risk |-> updated.arabic_cjk_risk]

\* scoring_auto_adjust.py 173-198 with database.py 139-146: the UPDATE of the
\* columns named in `updates`, in the row of the chat
apply_updates(c, config, updated, threshold) ==
    [c EXCEPT !.scoring_weights =
                  IF weights_changed(config, updated)
                  THEN all_weights(config, updated) ELSE @,
              !.scoring_threshold =
                  IF threshold # config.threshold THEN threshold ELSE @]

\* ------------------------------------------------------------ handle_text_message
\* database.py 663-708: the result of get_scoring_stats without a good user
NoScoringStats ==
    [lang_counts |-> <<>>, total_good_joins |-> 0, p95_id |-> NULL,
     p99_id |-> NULL]

\* no account
NoAccount ==
    [id |-> 0, is_premium |-> FALSE, language_code |-> <<>>,
     first_name |-> <<>>, has_username |-> FALSE, is_randomish |-> FALSE,
     is_bot |-> FALSE]

AIdle ==
    [pc |-> "idle", user |-> 0, text |-> <<>>, pending |-> NoPending,
     answer |-> <<>>, kind |-> "", message_id |-> 0, score |-> 0, sent |-> FALSE,
     new_value |-> FALSE, config |-> <<>>, call_time |-> 0,
     \* history, read by no action
     removed |-> 0, kicks |-> 0, kick_ok |-> FALSE, log_calls |-> 0,
     logged |-> 0, accepted |-> FALSE, trig_checked |-> FALSE,
     good_score |-> 0, handed_score |-> 0, trig_total |-> 0,
     started |-> FALSE, before |-> 0, after |-> 0,
     ban_only |-> FALSE, risk_score |-> NULL, raw |-> 0, id_risk |-> 0,
     scored_id |-> 0, p95_id |-> NULL, p99_id |-> NULL, max_id_risk |-> 0,
     account |-> NoAccount, photo_count |-> 0, stats |-> NoScoringStats,
     in_mitigation |-> FALSE,
     scoring_enabled |-> FALSE, captcha_enabled |-> FALSE,
     protection_active |-> FALSE, scoring_failed |-> FALSE,
     scoring_kicked |-> FALSE, challenged |-> FALSE, is_group |-> FALSE]

ASet(k, r) == ah' = [ah EXCEPT ![k] = r]

captchaFrame == <<now, chat, sessions, joins, join_users, hs, hist, nEvents,
                  nActivations, okKicks, nAdmin, lastCount, lastCutoff,
                  issueVars, scoringVars>>

\* setup.py 519-525: a toggle_premium_ callback arrives and its get_chat
\* returns; new_value is the negation of the value read.  With no row of the
\* chat `None['protect_premium']` raises TypeError and the handler ends
TogglePremiumGetChat(k) ==
    /\ ah[k].pc = "idle"
    /\ nAdmin < MaxAdminOps
    /\ nAdmin' = nAdmin + 1
    /\ ASet(k, IF chat.exists
               THEN [AIdle EXCEPT !.pc = "g_update", !.kind = "toggle",
                                  !.new_value = ~chat.protect_premium]
               ELSE AIdle)
    /\ UNCHANGED <<now, chat, sessions, joins, join_users, pending, member, hs,
                   hist, nEvents, nActivations, okKicks, good_users,
                   failed_users, nMsgs, accepts, removals, lastCount,
                   lastCutoff, issueVars, scoringVars, tn>>

\* setup.py 526-532: update_chat_settings(protect_premium = new_value)
\* returns; the settings are shown and the handler ends
TogglePremiumUpdate(k) ==
    /\ ah[k].pc = "g_update"
    /\ chat' = update_chat_protect_premium(chat, ah[k].new_value)
    /\ ASet(k, AIdle)
    /\ UNCHANGED <<now, sessions, joins, join_users, pending, member, hs,
                   hist, nEvents, nActivations, okKicks, nAdmin, good_users,
                   failed_users, nMsgs, accepts, removals, lastCount,
                   lastCutoff, issueVars, scoringVars, tn>>

\* the mutant without `if not pending: return`
NotAnAnswer_IgnorePending(r) == r.answer = <<>>

\* captcha.py 271-286: `if not pending: return` ... `if not answer: return`
NotAnAnswer(r) == ~r.pending.exists \/ r.answer = <<>>

\* captcha.py 259-269: a text message of user u arrives; get_pending_captcha is awaited
TextMessage(k, u, text) ==
    /\ ah[k].pc = "idle"
    /\ nMsgs < MaxMsgs
    /\ nMsgs' = nMsgs + 1
    /\ ASet(k, [AIdle EXCEPT !.pc = "t_get_pending", !.user = u, !.text = text,
                             !.kind = "text"])
    /\ UNCHANGED <<pending, member, good_users, failed_users, accepts, removals,
                   tn, captchaFrame>>

\* captcha.py 269-299, 356-365: the record is read; without one, or without a
\* digit in the text, the handler returns; else the captcha message is deleted
\* and remove_pending_captcha is awaited
TxtGetPending(k) ==
    /\ ah[k].pc = "t_get_pending"
    /\ LET r == [ah[k] EXCEPT !.pending = get_pending_captcha(pending, ah[k].user),
                              !.answer = parse_captcha_answer(ah[k].text)]
       IN  ASet(k, IF NotAnAnswer(r)
                   THEN [r EXCEPT !.pc = "t_done"]
                   ELSE [r EXCEPT !.pc = "t_remove"])
    /\ UNCHANGED <<pending, member, good_users, failed_users, nMsgs, accepts,
                   removals, tn, captchaFrame>>

\* captcha.py 299-320, 365-369: remove_pending_captcha returns, on either
\* branch; add_good_user or ban_chat_member is awaited
TxtRemove(k) ==
    /\ ah[k].pc = "t_remove"
    /\ pending' = remove_pending_captcha(pending, ah[k].user)
    /\ IF ah[k].answer = ah[k].pending.correct_answer
       THEN /\ accepts' = [accepts EXCEPT ![ah[k].user] = @ + 1]
            /\ ASet(k, [ah[k] EXCEPT !.pc = "t_add_good", !.removed = @ + 1,
                                     !.accepted = TRUE])
       ELSE /\ accepts' = accepts
            /\ ASet(k, [ah[k] EXCEPT !.pc = "t_ban", !.removed = @ + 1])
    /\ UNCHANGED <<member, good_users, failed_users, nMsgs, removals, tn,
                   captchaFrame>>

\* captcha.py 301-353: add_good_user returns; the welcome is sent and
\* should_trigger_auto_adjust is awaited
TxtAddGood(k) ==
    /\ ah[k].pc = "t_add_good"
    /\ good_users' = add_good_user(good_users, ah[k].user,
                                   PendingScore(ah[k].pending))
    /\ ASet(k, [ah[k] EXCEPT !.pc = "t_trigger",
                              !.good_score = PendingScore(ah[k].pending),
                              !.handed_score = handed[ah[k].user]])
    /\ UNCHANGED <<pending, member, failed_users, nMsgs, accepts, removals, tn,
                   captchaFrame>>

\* captcha.py 353-354: should_trigger_auto_adjust returns; a true result makes
\* auto_adjust_scoring a task
TxtTrigger(k) ==
    /\ ah[k].pc = "t_trigger"
    /\ TriggerStep(k)
    /\ UNCHANGED <<pending, member, good_users, failed_users, nMsgs, accepts,
                   removals, captchaFrame>>

\* captcha.py 369, 387-391: ban_chat_member returns, and the user is out of
\* the chat, or raises, which is logged
TxtBan(k) ==
    /\ ah[k].pc = "t_ban"
    /\ \E ok \in BOOLEAN :
        /\ member' = [member EXCEPT ![ah[k].user] = @ /\ ~ok]
        /\ ASet(k, [ah[k] EXCEPT !.kicks = @ + 1,
                                 !.pc = IF ok THEN "t_unban" ELSE "t_log_failed"])
    /\ UNCHANGED <<pending, good_users, failed_users, nMsgs, accepts, removals,
                   tn, captchaFrame>>

\* captcha.py 370-391: unban_chat_member returns, and the kick is logged, or
\* raises; _log_failed_captcha_user is awaited
TxtUnban(k) ==
    /\ ah[k].pc = "t_unban"
    /\ \E ok \in BOOLEAN :
        /\ removals' = [removals EXCEPT
              ![ah[k].user] = @ + (IF ok THEN 1 ELSE 0)]
        /\ ASet(k, [ah[k] EXCEPT !.pc = "t_log_failed", !.kick_ok = ok,
                                 !.ban_only = ~ok])
    /\ UNCHANGED <<pending, member, good_users, failed_users, nMsgs, accepts,
                   tn, captchaFrame>>

\* captcha.py 391 (36-106): _log_failed_captcha_user; when get_chat_member raises
\* nothing is stored; the handler ends
TxtLogFailed(k) ==
    /\ ah[k].pc = "t_log_failed"
    /\ \E fetched \in BOOLEAN :
        /\ failed_users' = IF fetched THEN add_outcome(failed_users, ah[k].user)
                                      ELSE failed_users
        /\ ASet(k, [ah[k] EXCEPT !.pc = "t_done", !.log_calls = @ + 1,
                                 !.logged = @ + (IF fetched THEN 1 ELSE 0)])
    /\ UNCHANGED <<pending, member, good_users, nMsgs, accepts, removals, tn,
                   captchaFrame>>

\* the coroutine ends
TxtReturn(k) ==
    /\ ah[k].pc = "t_done"
    /\ ASet(k, AIdle)
    /\ UNCHANGED <<pending, member, good_users, failed_users, nMsgs, accepts,
                   removals, tn, captchaFrame>>

\* ------------------------------------------------------------ handle_captcha_answer_deprecated
\* captcha.py 395: F.data.startswith("captcha:"), the prefix of the data of
\* the queries the handler is registered for
CallbackPrefix == <<"c", "a", "p", "t", "c", "h", "a", ":">>

\* what follows the prefix in the data of a query: the button of an answer,
\* data with a second colon, nothing
CallbackTexts == {<<"7">>, <<"8">>, <<"7", ":", "8">>, <<>>}

RECURSIVE split(_, _)
\* str.split(sep): the fields between the occurrences of the separator
split(s, sep) ==
    IF \A i \in DOMAIN s : s[i] # sep THEN <<s>>
    ELSE LET i == CHOOSE j \in DOMAIN s :
                     s[j] = sep /\ \A m \in 1..(j - 1) : s[m] # sep
         IN  <<SubSeq(s, 1, i - 1)>> \o split(SubSeq(s, i + 1, Len(s)), sep)

\* captcha.py 394-403: a callback query of user u whose data is "captcha:"
\* followed by text arrives; get_pending_captcha is awaited
CallbackQuery(k, u, text) ==
    /\ ah[k].pc = "idle"
    /\ nMsgs < MaxMsgs
    /\ nMsgs' = nMsgs + 1
    /\ ASet(k, [AIdle EXCEPT !.pc = "c_get_pending", !.user = u,
                             !.text = CallbackPrefix \o text,
                             !.kind = "callback"])
    /\ UNCHANGED <<pending, member, good_users, failed_users, accepts, removals,
                   tn, captchaFrame>>

\* captcha.py 403-427, 484-486: without a record the handler returns; else the
\* answer is callback.data.split(":")[1], the field after the first colon as
\* it is (no character is dropped), and callback.answer is awaited outside
\* any try: when it raises the handler ends
CbGetPending(k) ==
    /\ ah[k].pc = "c_get_pending"
    /\ \E answered \in BOOLEAN :
        LET r == [ah[k] EXCEPT !.pending = get_pending_captcha(pending, ah[k].user),
                               !.answer = split(ah[k].text, ":")[2]]
        IN  ASet(k, IF ~r.pending.exists \/ ~answered
                    THEN [r EXCEPT !.pc = "t_done"]
                    ELSE IF r.answer = r.pending.correct_answer
                    THEN [r EXCEPT !.pc = "c_remove"]
                    ELSE [r EXCEPT !.pc = "c_ban"])
    /\ UNCHANGED <<pending, member, good_users, failed_users, nMsgs, accepts,
                   removals, tn, captchaFrame>>

\* captcha.py 429-438: the captcha message is deleted and
\* remove_pending_captcha returns
CbRemove(k) ==
    /\ ah[k].pc = "c_remove"
    /\ pending' = remove_pending_captcha(pending, ah[k].user)
    /\ accepts' = [accepts EXCEPT ![ah[k].user] = @ + 1]
    /\ ASet(k, [ah[k] EXCEPT !.pc = "c_add_good", !.removed = @ + 1,
                             !.accepted = TRUE])
    /\ UNCHANGED <<member, good_users, failed_users, nMsgs, removals, tn,
                   captchaFrame>>

\* captcha.py 440-481: add_good_user returns and the welcome is sent; the
\* handler ends with no call of should_trigger_auto_adjust
CbAddGood(k) ==
    /\ ah[k].pc = "c_add_good"
    /\ good_users' = add_good_user(good_users, ah[k].user,
                                   PendingScore(ah[k].pending))
    /\ ASet(k, [ah[k] EXCEPT !.pc = "t_done",
                              !.good_score = PendingScore(ah[k].pending),
                              !.handed_score = handed[ah[k].user]])
    /\ UNCHANGED <<pending, member, failed_users, nMsgs, accepts, removals, tn,
                   captchaFrame>>

\* captcha.py 492-493, 508: ban_chat_member, inside the try that also holds
\* the deletion of the record, returns, and the user is out of the chat, or
\* raises, and the record stays.  No failed_users row is written on this path
CbBan(k) ==
    /\ ah[k].pc = "c_ban"
    /\ \E ok \in BOOLEAN :
        /\ member' = [member EXCEPT ![ah[k].user] = @ /\ ~ok]
        /\ ASet(k, [ah[k] EXCEPT !.kicks = @ + 1,
                                 !.pc = IF ok THEN "c_unban" ELSE "t_done"])
    /\ UNCHANGED <<pending, good_users, failed_users, nMsgs, accepts, removals,
                   tn, captchaFrame>>

\* captcha.py 494-504, 508: unban_chat_member returns, the captcha message is
\* deleted and remove_pending_captcha is awaited; or it raises, and the
\* record stays
CbUnban(k) ==
    /\ ah[k].pc = "c_unban"
    /\ \E ok \in BOOLEAN :
        /\ removals' = [removals EXCEPT
              ![ah[k].user] = @ + (IF ok THEN 1 ELSE 0)]
        /\ ASet(k, [ah[k] EXCEPT !.kick_ok = ok, !.ban_only = ~ok,
                                 !.pc = IF ok THEN "c_kick_remove" ELSE "t_done"])
    /\ UNCHANGED <<pending, member, good_users, failed_users, nMsgs, accepts,
                   tn, captchaFrame>>

\* captcha.py 504-506: remove_pending_captcha returns after the kick
CbKickRemove(k) ==
    /\ ah[k].pc = "c_kick_remove"
    /\ pending' = remove_pending_captcha(pending, ah[k].user)
    /\ ASet(k, [ah[k] EXCEPT !.pc = "t_done", !.removed = @ + 1])
    /\ UNCHANGED <<member, good_users, failed_users, nMsgs, accepts, removals,
                   tn, captchaFrame>>

\* statistics_clear.py 38-46, database.py 532-541: the callback
\* clear_good_execute_<chat_id> deletes every good_users row of the chat
clear_good_users(rows) == <<>>

\* ------------------------------------------------------------ _captcha_timeout_handler
\* captcha.py 175, 191-197: a task send_captcha created for the challenge of
\* user u runs; it sleeps 60 seconds and awaits get_pending_captcha.  The
\* tasks are created at captcha.py 175 and nowhere else
TimeoutStart(k, u) ==
    /\ ah[k].pc = "idle"
    /\ nMsgs < MaxMsgs
    /\ nMsgs' = nMsgs + 1
    /\ \E t \in timers :
          /\ t.user = u
          /\ ASet(k, [AIdle EXCEPT !.pc = "o_get_pending", !.user = u,
                                   !.kind = "timeout",
                                   !.message_id = t.message_id])
    /\ UNCHANGED <<pending, member, good_users, failed_users, accepts, removals,
                   tn, captchaFrame>>

\* captcha.py 197-202: without a record the task returns
TmoGetPending(k) ==
    /\ ah[k].pc = "o_get_pending"
    /\ LET r == [ah[k] EXCEPT !.pending = get_pending_captcha(pending, ah[k].user)]
       IN  ASet(k, IF ~r.pending.exists THEN [r EXCEPT !.pc = "t_done"]
                                        ELSE [r EXCEPT !.pc = "o_log_failed"])
    /\ UNCHANGED <<pending, member, good_users, failed_users, nMsgs, accepts,
                   removals, tn, captchaFrame>>

\* captcha.py 202-219 (36-106): _log_failed_captcha_user returns; the
\* username and the chat are looked up for the log and ban_chat_member is
\* awaited
TmoLogFailed(k) ==
    /\ ah[k].pc = "o_log_failed"
    /\ \E fetched \in BOOLEAN :
        /\ failed_users' = IF fetched THEN add_outcome(failed_users, ah[k].user)
                                      ELSE failed_users
        /\ ASet(k, [ah[k] EXCEPT !.pc = "o_ban", !.log_calls = @ + 1,
                                 !.logged = @ + (IF fetched THEN 1 ELSE 0)])
    /\ UNCHANGED <<pending, member, good_users, nMsgs, accepts, removals, tn,
                   captchaFrame>>

\* captcha.py 219, 226-237: ban_chat_member returns, and the user is out of
\* the chat, or raises: kick_success stays False, the captcha message is
\* deleted and remove_pending_captcha is awaited
TmoBan(k) ==
    /\ ah[k].pc = "o_ban"
    /\ \E ok \in BOOLEAN :
        /\ member' = [member EXCEPT ![ah[k].user] = @ /\ ~ok]
        /\ ASet(k, [ah[k] EXCEPT !.kicks = @ + 1,
                                 !.pc = IF ok THEN "o_unban" ELSE "o_remove"])
    /\ UNCHANGED <<pending, good_users, failed_users, nMsgs, accepts, removals,
                   tn, captchaFrame>>

\* captcha.py 220-237: unban_chat_member returns, and kick_success is True, or
\* raises; the captcha message is deleted and remove_pending_captcha is
\* awaited
TmoUnban(k) ==
    /\ ah[k].pc = "o_unban"
    /\ \E ok \in BOOLEAN :
        /\ removals' = [removals EXCEPT
              ![ah[k].user] = @ + (IF ok THEN 1 ELSE 0)]
        /\ ASet(k, [ah[k] EXCEPT !.pc = "o_remove", !.kick_ok = ok,
                                 !.ban_only = ~ok])
    /\ UNCHANGED <<pending, member, good_users, failed_users, nMsgs, accepts,
                   tn, captchaFrame>>

\* captcha.py 235-244: remove_pending_captcha returns; after a successful kick
\* should_trigger_auto_adjust is awaited
TmoRemove(k) ==
    /\ ah[k].pc = "o_remove"
    /\ pending' = remove_pending_captcha(pending, ah[k].user)
    /\ ASet(k, [ah[k] EXCEPT !.removed = @ + 1,
                             !.pc = IF ah[k].kick_ok THEN "o_trigger" ELSE "t_done"])
    /\ UNCHANGED <<member, good_users, failed_users, nMsgs, accepts, removals,
                   tn, captchaFrame>>

\* captcha.py 244-249: should_trigger_auto_adjust returns; a true result runs
\* auto_adjust_scoring
TmoTrigger(k) ==
    /\ ah[k].pc = "o_trigger"
    /\ TriggerStep(k)
    /\ UNCHANGED <<pending, member, good_users, failed_users, nMsgs, accepts,
                   removals, captchaFrame>>

\* ------------------------------------------------------------ score_user
\* A character is a one-character string; "cyr_ya" and "ar_meem" stand for the
\* Cyrillic letter ya and the Arabic letter meem.

\* str.lower() on the characters of the inputs
lower(c) ==
    CASE c = "J" -> "j"
      [] c = "R" -> "r"
      [] c = "U" -> "u"
      [] c = "S" -> "s"
      [] OTHER   -> c

\* scoring.py 52: the class [a-zA-Z] of LANG_CODE_RE
AsciiLetters == {"a", "e", "j", "n", "r", "s", "u", "J", "R", "U", "S"}

\* str.isalnum() on the characters of the inputs
isalnum(c) == c \in AsciiLetters \cup {"cyr_ya", "ar_meem", "7"}

\* int(n / d) of Python for d > 0: truncation toward zero
int_trunc(n, d) == IF n >= 0 THEN n \div d ELSE -((-n) \div d)

\* scoring.py 15-34: the defaults of the ScoringConfig dataclass
ScoringConfigDefaults ==
    [lang_distribution |-> DefaultLangDistribution,
     max_lang_risk |-> 25, no_lang_risk |-> 15, max_id_risk |-> 20,
     premium_bonus |-> -20, no_avatar_risk |-> 15, one_avatar_risk |-> 5,
     no_username_risk |-> 15, weird_name_risk |-> 10, exotic_script_risk |-> 25,
     special_chars_risk |-> 15, repeating_chars_risk |-> 5,
     random_username_risk |-> 15]

\* scoring.py 79-83: _normalize_lang keeps the two or three leading ASCII
\* letters, lower-cased; without such a prefix the whole code is lower-cased
normalize_lang(code) ==
    LET letters(n) == n <= Len(code) /\ \A i \in 1..n : code[i] \in AsciiLetters
        n == IF letters(3) THEN 3 ELSE IF letters(2) THEN 2 ELSE 0
    IN  IF n = 0 THEN [i \in 1..Len(code) |-> lower(code[i])]
                 ELSE [i \in 1..n |-> lower(code[i])]

\* ------------------------------------------------------------ float arithmetic
\* Python's float is IEEE 754 binary64.  A natural number is kept as the
\* sequence of its digits in base Base, lowest first, with no leading zero
\* digit (<<>> is 0); a float that is not negative is [n, e], standing for
\* n * 2^e with n of MantissaBits bits, or n = <<>> for 0.0.  Every operation
\* computes the exact result and rounds it to the nearest float, ties to even
LimbBits == 15

Base == 2 ^ LimbBits

MantissaBits == 53

RECURSIVE Trim(_)
Trim(a) ==
    IF a = <<>> THEN <<>>
    ELSE IF a[Len(a)] = 0 THEN Trim(SubSeq(a, 1, Len(a) - 1)) ELSE a

RECURSIVE NatOf(_)
NatOf(k) == IF k = 0 THEN <<>> ELSE <<k % Base>> \o NatOf(k \div Base)

RECURSIVE IntOf(_)
IntOf(a) == IF a = <<>> THEN 0 ELSE a[1] + Base * IntOf(Tail(a))

RECURSIVE AddCarry(_, _, _)
AddCarry(a, b, c) ==
    IF a = <<>> /\ b = <<>> THEN NatOf(c)
    ELSE LET x == (IF a = <<>> THEN 0 ELSE Head(a))
                    + (IF b = <<>> THEN 0 ELSE Head(b)) + c
         IN  <<x % Base>> \o AddCarry(IF a = <<>> THEN <<>> ELSE Tail(a),
                                      IF b = <<>> THEN <<>> ELSE Tail(b),
                                      x \div Base)

BigAdd(a, b) == AddCarry(a, b, 0)

RECURSIVE SubBorrow(_, _, _)
SubBorrow(a, b, c) ==
    IF a = <<>> THEN <<>>
    ELSE LET x == Head(a) - (IF b = <<>> THEN 0 ELSE Head(b)) - c
         IN  <<x % Base>> \o SubBorrow(Tail(a),
                                       IF b = <<>> THEN <<>> ELSE Tail(b),
                                       IF x < 0 THEN 1 ELSE 0)

\* a - b for a >= b
BigSub(a, b) == Trim(SubBorrow(a, b, 0))

RECURSIVE MulCarry(_, _, _)
MulCarry(a, k, c) ==
    IF a = <<>> THEN NatOf(c)
    ELSE LET x == Head(a) * k + c
         IN  <<x % Base>> \o MulCarry(Tail(a), k, x \div Base)

\* a * k for k < Base
MulSmall(a, k) == Trim(MulCarry(a, k, 0))

RECURSIVE BigMul(_, _)
BigMul(a, b) ==
    IF a = <<>> \/ b = <<>> THEN <<>>
    ELSE LET rest == BigMul(a, Tail(b))
         IN  BigAdd(MulSmall(a, Head(b)),
                    IF rest = <<>> THEN <<>> ELSE <<0>> \o rest)

RECURSIVE CmpFrom(_, _, _)
CmpFrom(a, b, i) ==
    IF i = 0 THEN 0
    ELSE IF a[i] < b[i] THEN -1
    ELSE IF a[i] > b[i] THEN 1
    ELSE CmpFrom(a, b, i - 1)

\* -1, 0 or 1 as a is less than, equal to or greater than b
BigCmp(a, b) ==
    IF Len(a) < Len(b) THEN -1
    ELSE IF Len(a) > Len(b) THEN 1
    ELSE CmpFrom(a, b, Len(a))

RECURSIVE SmallBitLen(_)
SmallBitLen(x) == IF x = 0 THEN 0 ELSE 1 + SmallBitLen(x \div 2)

BitLen(a) ==
    IF a = <<>> THEN 0
    ELSE LimbBits * (Len(a) - 1) + SmallBitLen(a[Len(a)])

\* a * 2^s
Shl(a, s) ==
    IF a = <<>> THEN <<>>
    ELSE [i \in 1..(s \div LimbBits) |-> 0] \o MulSmall(a, 2 ^ (s % LimbBits))

RECURSIVE DivSmallFrom(_, _, _, _)
DivSmallFrom(a, d, i, r) ==
    IF i = 0 THEN <<>>
    ELSE LET x == r * Base + a[i]
         IN  DivSmallFrom(a, d, i - 1, x % d) \o <<x \div d>>

\* a \div 2^s
Shr(a, s) ==
    IF s \div LimbBits >= Len(a) THEN <<>>
    ELSE LET b == SubSeq(a, s \div LimbBits + 1, Len(a))
         IN  Trim(DivSmallFrom(b, 2 ^ (s % LimbBits), Len(b), 0))

Bit(a, i) == (a[i \div LimbBits + 1] \div 2 ^ (i % LimbBits)) % 2

\* long division over the bits hi down to lo of a, r being the remainder of
\* the bits above hi: the quotient bits found, and the remainder after bit lo
\* one step of the division: bit hi of the quotient, from the remainder r2
\* so far with the next bit of the dividend appended
DivStep(b, hi, r2) ==
    IF BigCmp(r2, b) >= 0 THEN [q |-> Shl(<<1>>, hi), r |-> BigSub(r2, b)]
                          ELSE [q |-> <<>>, r |-> r2]

RECURSIVE DivRange(_, _, _, _, _)
DivRange(a, b, hi, lo, r) ==
    IF hi = lo THEN DivStep(b, hi, BigAdd(Shl(r, 1), NatOf(Bit(a, hi))))
    ELSE LET mid  == (hi + lo + 1) \div 2
             high == DivRange(a, b, hi, mid, r)
             low  == DivRange(a, b, mid - 1, lo, high.r)
         IN  [q |-> BigAdd(high.q, low.q), r |-> low.r]

\* a \div b and a % b for b > 0
BigDivMod(a, b) ==
    IF a = <<>> THEN [q |-> <<>>, r |-> <<>>]
    ELSE DivRange(a, b, BitLen(a) - 1, 0, <<>>)

FloatZero == [n |-> <<>>, e |-> 0]

\* the float of the mantissa q, which has one bit too many when rounding up
\* carried into a new bit
Mantissa(q, e) ==
    IF BitLen(q) > MantissaBits THEN [n |-> Shr(q, 1), e |-> e + 1]
                                ELSE [n |-> q, e |-> e]

\* q rounded by the bits cut off below it, which compare as c to one half of
\* the last place; a tie goes to the even mantissa
RoundTie(q, e, sticky, c) ==
    Mantissa(IF c = 1 \/ (c = 0 /\ (sticky \/ q[1] % 2 = 1))
             THEN BigAdd(q, <<1>>) ELSE q, e)

\* n with its lowest s bits cut off, q being the bits kept
RoundCut(n, e, sticky, s, q) ==
    RoundTie(q, e + s, sticky,
             BigCmp(BigSub(n, Shl(q, s)), Shl(<<1>>, s - 1)))

\* n, which has s bits more than a mantissa
RoundBits(n, e, sticky, s) ==
    IF s <= 0 THEN [n |-> Shl(n, -s), e |-> e + s]
    ELSE RoundCut(n, e, sticky, s, Shr(n, s))

\* the float nearest to n * 2^e, or to a number just above it when sticky
RoundFloat(n, e, sticky) ==
    IF n = <<>> THEN FloatZero
    ELSE RoundBits(n, e, sticky, BitLen(n) - MantissaBits)

\* float(k) for an int k >= 0
FromInt(k) == RoundFloat(NatOf(k), 0, FALSE)

FMul(a, b) ==
    IF a.n = <<>> \/ b.n = <<>> THEN FloatZero
    ELSE RoundFloat(BigMul(a.n, b.n), a.e + b.e, FALSE)

FAdd(a, b) ==
    IF a.n = <<>> THEN b
    ELSE IF b.n = <<>> THEN a
    ELSE LET e == IF a.e <= b.e THEN a.e ELSE b.e
         IN  RoundFloat(BigAdd(Shl(a.n, a.e - e), Shl(b.n, b.e - e)), e, FALSE)

\* the quotient of the mantissas is taken to GuardBits bits more than a
\* mantissa has, and its remainder tells whether it is exact
GuardBits == 3

RoundQuotient(d, e) == RoundFloat(d.q, e, d.r # <<>>)

\* a / b for a divisor that is not zero (Python raises ZeroDivisionError on
\* zero; no call of the model passes one)
FDiv(a, b) ==
    IF a.n = <<>> \/ b.n = <<>> THEN FloatZero
    ELSE RoundQuotient(BigDivMod(Shl(a.n, MantissaBits + GuardBits), b.n),
                       a.e - b.e - (MantissaBits + GuardBits))

\* a < b
FLess(a, b) ==
    IF b.n = <<>> THEN FALSE
    ELSE IF a.n = <<>> THEN TRUE
    ELSE a.e < b.e \/ (a.e = b.e /\ BigCmp(a.n, b.n) < 0)

\* int(a) for a >= 0
FloorInt(a) ==
    IF a.n = <<>> THEN 0
    ELSE IF a.e >= 0 THEN IntOf(Shl(a.n, a.e))
    ELSE IntOf(Shr(a.n, -a.e))

\* the float of the literal or quotient p / q of two ints
FloatOf(p, q) == FDiv(FromInt(p), FromInt(q))

\* database.py 663-708: get_scoring_stats over the good_users rows of the last
\* seven days in the order of user_id; int(count * 0.95) is count * 95 \div 100
get_scoring_stats(rows) ==
    LET count == Len(rows)
        langs == {rows[i].language_code : i \in 1..count} \ {<<>>}
        p95_idx == (count * 95) \div 100
        p99_idx == (count * 99) \div 100
    IN  [lang_counts |->
            [l \in langs |->
                Cardinality({i \in 1..count : rows[i].language_code = l})],
         total_good_joins |-> count,
         p95_id |-> IF count > 0 /\ p95_idx < count
                    THEN rows[p95_idx + 1].user_id ELSE NULL,
         p99_id |-> IF count > 0 /\ p99_idx < count
                    THEN rows[p99_idx + 1].user_id ELSE NULL]

\* the smallest number of good users whose two percentiles are different rows
PercentileRows == 21

\* accounts, photo counts, weights and good_users tables score_user is run on
ScoredIds == {4, PercentileRows, PercentileRows + 1}
LanguageCodes == {<<>>, <<"r", "u">>, <<"e", "n", "-", "U", "S">>, <<"a", "r">>}
FirstNames ==
    {<<"a", "n", "n", "a">>, <<"J", "j", "j", "j", "j">>,
     <<"cyr_ya", "n", "a">>, <<"7", "7", "7", "7", "7">>, <<"<", "<", "<", "<", "<">>,
     <<"ar_meem", "ar_meem", "ar_meem", "ar_meem", "ar_meem", "@">>, <<"a", "<">>}
Accounts ==
    [id : ScoredIds, is_premium : BOOLEAN, language_code : LanguageCodes,
     first_name : FirstNames, has_username : BOOLEAN, is_randomish : BOOLEAN]
\* a distribution of three languages whose shares do not add up to 1, with its
\* keys in two orders: the float sum of the shares depends on the order
ThreeLangDistribution ==
    <<<<<<"r", "u">>, 80>>, <<<<"e", "n">>, 65>>, <<<<"a", "r">>, 30>>>>
ThreeLangReordered ==
    <<<<<<"r", "u">>, 80>>, <<<<"a", "r">>, 30>>, <<<<"e", "n">>, 65>>>>
ScoringConfigs ==
    {ScoringConfigDefaults,
     [ScoringConfigDefaults EXCEPT !.no_username_risk = 30,
         !.exotic_script_risk = 40, !.weird_name_risk = 25,
         !.no_avatar_risk = 30, !.one_avatar_risk = 15, !.no_lang_risk = 25,
         !.max_id_risk = 25, !.random_username_risk = 30],
     [ScoringConfigDefaults EXCEPT !.lang_distribution = ThreeLangDistribution],
     [ScoringConfigDefaults EXCEPT !.lang_distribution = ThreeLangReordered]}
GoodTables ==
    {<<>>,
     <<[user_id |-> 3, language_code |-> <<"r", "u">>]>>,
     <<[user_id |-> 3, language_code |-> <<"e", "n">>]>>,
     [i \in 1..PercentileRows |->
        [user_id |-> i,
         language_code |-> IF i <= 16 THEN <<"r", "u">>
                           ELSE IF i <= 20 THEN <<"e", "n">> ELSE <<>>]]}

\* a value of lang_distribution is kept in hundredths: 80 is the float 0.8
Hundredths(v) == FloatOf(v, 100)

RECURSIVE SumValues(_)
\* scoring.py 108: sum(d.values()): the values are added to 0 one by one in
\* the order of the dict, every addition rounded
SumValues(d) ==
    IF d = <<>> THEN FloatZero
    ELSE FAdd(SumValues(SubSeq(d, 1, Len(d) - 1)), Hundredths(d[Len(d)][2]))

\* d.get(key, 0.0) of a dict of shares
ShareOf(d, key) ==
    IF \E i \in DOMAIN d : d[i][1] = key
    THEN Hundredths(d[CHOOSE i \in DOMAIN d : d[i][1] = key][2])
    ELSE FloatZero

\* scoring.py 108: total_expected, sum(...) or 1.0
OrOne(sum) == IF sum = FloatZero THEN FromInt(1) ELSE sum

\* scoring.py 108-109
expected_share(lang, dist) ==
    FDiv(ShareOf(dist, lang), OrOne(SumValues(dist)))

\* scoring.py 112-115
empirical_share(count, total_good_joins, expected) ==
    IF total_good_joins > 0
    THEN FDiv(FromInt(count), FromInt(total_good_joins))
    ELSE expected

\* scoring.py 119: max(0.0, min(1.0, x)) of an x that is not negative
Clamp(x) == IF FLess(FromInt(1), x) THEN FromInt(1) ELSE x

\* scoring.py 118-119
combined_share(expected, count, total_good_joins) ==
    Clamp(FAdd(FMul(FloatOf(7, 10), expected),
               FMul(FloatOf(3, 10),
                    empirical_share(count, total_good_joins, expected))))

\* scoring.py 121-126: -int(combined_share * max_lang_risk), or the whole
\* weight for a share of at most 0.01
risk_of_share(combined, max_lang_risk) ==
    IF FLess(FloatOf(1, 100), combined)
    THEN IF max_lang_risk >= 0
         THEN -FloorInt(FMul(combined, FromInt(max_lang_risk)))
         ELSE FloorInt(FMul(combined, FromInt(-max_lang_risk)))
    ELSE max_lang_risk

\* scoring.py 108-126: the risk of a normalised language code lang that count
\* of the total_good_joins good users have, computed in floats as the code does
share_risk(lang, dist, count, total_good_joins, max_lang_risk) ==
    risk_of_share(combined_share(expected_share(lang, dist), count,
                                 total_good_joins), max_lang_risk)

\* the arguments of share_risk for a language code, a configuration and the
\* statistics of the good users
ShareArgs(user_lang, c, stats) ==
    <<normalize_lang(user_lang), c.lang_distribution,
      IF normalize_lang(user_lang) \in DOMAIN stats.lang_counts
      THEN stats.lang_counts[normalize_lang(user_lang)] ELSE 0,
      stats.total_good_joins, c.max_lang_risk>>

\* share_risk on the language codes, configurations and tables score_user is
\* run on, computed once
ShareRisks ==
    {<<x, share_risk(x[1], x[2], x[3], x[4], x[5])>> :
        x \in {ShareArgs(l, c, get_scoring_stats(rows)) :
                  l \in LanguageCodes \ {<<>>}, c \in ScoringConfigs,
                  rows \in GoodTables}}

\* share_risk(x), looked up when hits holds it
RiskOf(hits, x) ==
    IF hits = {} THEN share_risk(x[1], x[2], x[3], x[4], x[5])
    ELSE (CHOOSE p \in hits : TRUE)[2]

RiskAt(x) == RiskOf({p \in ShareRisks : p[1] = x}, x)

\* scoring.py 86-126: _compute_lang_risk
compute_lang_risk(user_lang, c, stats) ==
    IF user_lang = <<>> THEN c.no_lang_risk
    ELSE RiskAt(ShareArgs(user_lang, c, stats))

\* scoring.py 129-141 with the percentiles in the wrong order (mutant)
compute_id_risk_Swapped(user_id, c, stats) ==
    IF stats.p95_id \in {NULL, 0} \/ stats.p99_id \in {NULL, 0} THEN 0
    ELSE IF user_id > stats.p95_id THEN c.max_id_risk
    ELSE 0

\* scoring.py 129-141: _compute_id_risk; `not stats.p95_id` is true of None
\* and of 0
compute_id_risk(user_id, c, stats) ==
    IF stats.p95_id \in {NULL, 0} \/ stats.p99_id \in {NULL, 0} THEN 0
    ELSE IF user_id > stats.p99_id THEN c.max_id_risk
    ELSE IF user_id > stats.p95_id THEN int_trunc(c.max_id_risk, 2)
    ELSE 0

RECURSIVE RepeatLoop(_, _, _, _, _)
\* scoring.py 226-233: the loop over full_name[1:]
RepeatLoop(name, i, current_char, current_count, max_repeat) ==
    IF i > Len(name) THEN max_repeat
    ELSE IF lower(name[i]) = current_char /\ isalnum(name[i])
         THEN RepeatLoop(name, i + 1, current_char, current_count + 1,
                         Max(max_repeat, current_count + 1))
         ELSE RepeatLoop(name, i + 1, lower(name[i]), 1, max_repeat)

\* scoring.py 150-262: the sum score_user makes before it normalises.  An
\* account has a first name without leading or trailing blanks and no last
\* name, so full_name is first_name; is_randomish is the verdict of
\* username_randomness(username, threshold=0.60)
raw_score(user, photo_count, c, stats) ==
    LET full_name == user.first_name
        chars     == Range(full_name)
        has_normal_letters == chars \cap (AsciiLetters \cup {"cyr_ya"}) # {}
        has_exotic_script  == "ar_meem" \in chars
        has_special_chars  == chars \cap {"<", "@"} # {}
        max_repeat == IF Len(full_name) > 1
                      THEN RepeatLoop(full_name, 2, lower(full_name[1]), 1, 1)
                      ELSE 1
    IN    (IF user.is_premium THEN c.premium_bonus ELSE 0)
        + compute_lang_risk(user.language_code, c, stats)
        + (IF photo_count = 0 THEN c.no_avatar_risk
           ELSE IF photo_count = 1 THEN c.one_avatar_risk ELSE 0)
        + (IF ~user.has_username THEN c.no_username_risk
           ELSE IF user.is_randomish THEN c.random_username_risk ELSE 0)
        + (IF ~has_normal_letters THEN c.weird_name_risk ELSE 0)
        + (IF has_exotic_script THEN c.exotic_script_risk ELSE 0)
        + (IF has_special_chars THEN c.special_chars_risk ELSE 0)
        + (IF max_repeat >= 5 THEN c.repeating_chars_risk ELSE 0)
        + compute_id_risk(user.id, c, stats)

\* scoring.py 150-296 without line 264 (mutant)
score_user_Unclamped(user, photo_count, c, stats) ==
    raw_score(user, photo_count, c, stats)

\* scoring.py 150-296: score_user; 264: score = max(0, min(100, score))
score_user(user, photo_count, c, stats) ==
    Max(0, Min(100, raw_score(user, photo_count, c, stats)))

\* scoring.py 150-296: one call of score_user; the row of the handler keeps
\* the arguments and the results
ScoreUser(k, user, photo_count, c, rows) ==
    /\ ah[k].pc = "idle"
    /\ nMsgs < MaxMsgs
    /\ user.is_randomish => user.has_username
    /\ nMsgs' = nMsgs + 1
    /\ LET stats == get_scoring_stats(rows)
       IN  ASet(k, [AIdle EXCEPT !.pc = "t_done", !.kind = "score",
                       !.risk_score = score_user(user, photo_count, c, stats),
                       !.raw = raw_score(user, photo_count, c, stats),
                       !.id_risk = compute_id_risk(user.id, c, stats),
                       !.scored_id = user.id, !.p95_id = stats.p95_id,
                       !.p99_id = stats.p99_id,
                       !.max_id_risk = c.max_id_risk])
    /\ UNCHANGED <<pending, member, good_users, failed_users, accepts, removals,
                   tn, captchaFrame>>

\* ------------------------------------------------------------ join handler: scoring and captcha
\* members.py 157-169: the keys scoring_config_data[...] is subscripted with
JoinSubscriptedKeys ==
    {"lang_distribution", "max_lang_risk", "no_lang_risk", "max_id_risk",
     "premium_bonus", "no_avatar_risk", "one_avatar_risk", "no_username_risk",
     "weird_name_risk", "random_username_risk"}

\* members.py 156-170: ScoringConfig(...) of the dict d; 166-168 read three
\* weights with .get and a fallback
build_scoring_config(d) ==
    [lang_distribution |-> d.lang_distribution,
     max_lang_risk |-> d.max_lang_risk, no_lang_risk |-> d.no_lang_risk,
     max_id_risk |-> d.max_id_risk, premium_bonus |-> d.premium_bonus,
     no_avatar_risk |-> d.no_avatar_risk,
     one_avatar_risk |-> d.one_avatar_risk,
     no_username_risk |-> d.no_username_risk,
     weird_name_risk |-> d.weird_name_risk,
     exotic_script_risk |->
        IF "exotic_script_risk" \in DOMAIN d THEN d.exotic_script_risk
        ELSE IF "arabic_cjk_risk" \in DOMAIN d THEN d.arabic_cjk_risk ELSE 25,
     special_chars_risk |->
        IF "special_chars_risk" \in DOMAIN d THEN d.special_chars_risk ELSE 15,
     repeating_chars_risk |->
        IF "repeating_chars_risk" \in DOMAIN d THEN d.repeating_chars_risk
        ELSE 5,
     random_username_risk |-> d.random_username_risk]

\* the accounts user u may join with: one with no language, no username and
\* an exotic name, one with language ru, a username and a plain name, and a
\* bot; premium as the detector sees the user
JoinAccounts(u) ==
    {[id |-> u, is_premium |-> Truthy(is_premium(u)), language_code |-> <<>>,
      first_name |-> <<"ar_meem", "ar_meem", "ar_meem", "ar_meem", "ar_meem", "@">>,
      has_username |-> FALSE, is_randomish |-> FALSE, is_bot |-> FALSE],
     [id |-> u, is_premium |-> Truthy(is_premium(u)),
      language_code |-> <<"r", "u">>,
      first_name |-> <<"a", "n", "n", "a">>,
      has_username |-> TRUE, is_randomish |-> FALSE, is_bot |-> FALSE],
     [id |-> u, is_premium |-> FALSE, language_code |-> <<>>,
      first_name |-> <<"a", "n", "n", "a">>,
      has_username |-> TRUE, is_randomish |-> FALSE, is_bot |-> TRUE]}

\* members.py 80: event.chat.type
ChatTypes == {"supergroup", "channel"}

is_group(chat_type) == chat_type \in {"group", "supergroup"}

\* members.py 217-228 and captcha.py 124-143: in a group with the captcha on
\* and no protection mode send_captcha is called for an account that is no
\* bot, with the risk score if the name is bound, else with 0, and awaits
\* get_chat; else the handler ends
JoinCaptcha(r) ==
    LET go == /\ r.is_group /\ r.captcha_enabled
              /\ ~r.protection_active /\ ~r.account.is_bot
        s  == IF r.risk_score # NULL THEN r.risk_score ELSE 0
    IN  IF go
        THEN [r EXCEPT !.pc = "s_get_chat", !.score = s,
                       !.message_id = nMsgs + 1, !.challenged = TRUE]
        ELSE [r EXCEPT !.pc = "t_done"]

\* the row of handler k becomes r; a send_captcha call the step made is
\* recorded with the score it was handed
JSet(k, r) ==
    /\ ASet(k, r)
    /\ handed' = IF r.challenged THEN [handed EXCEPT ![r.user] = r.score]
                                  ELSE handed

joinFrame == <<now, chat, sessions, joins, join_users, pending, hist,
               nEvents, nActivations, okKicks, nAdmin, failed_users, accepts,
               lastCount, lastCutoff, timers, issued, scoringVars, tn>>

\* members.py 138-142, 217: the handler h of a join that was not removed
\* (128-136) goes on, as the coroutine k, with the flags it read off chat_data
\* at 79-83 (scoring_enabled and captcha_enabled are columns no code of the
\* bot's join path writes).  The scoring block is entered, and
\* get_scoring_config awaited, unless the chat was in protection mode or the
\* account is a bot
JoinScore(k, h, a, chat_type, photo_count, scoring_on, captcha_on) ==
    /\ ah[k].pc = "idle"
    /\ hs[h].pc = "done"
    /\ hs[h].reason # "chat_not_protected"
    /\ ~hs[h].aborted
    /\ ~KickCurrent(hs[h])
    /\ a \in JoinAccounts(hs[h].user)
    /\ nMsgs < MaxMsgs
    /\ nMsgs' = nMsgs + 1
    /\ hs' = [hs EXCEPT ![h] = Idle]
    /\ LET pa == hs[h].pa2
           se == hs[h].chat_data /\ scoring_on
           ce == hs[h].chat_data /\ captcha_on
           r  == [AIdle EXCEPT !.kind = "join", !.user = hs[h].user,
                     !.account = a, !.is_group = is_group(chat_type),
                     !.photo_count = photo_count,
                     !.scoring_enabled = se, !.captcha_enabled = ce,
                     !.protection_active = pa]
       IN  JSet(k, IF se /\ ~pa /\ ~a.is_bot
                   THEN [r EXCEPT !.pc = "j_get_config"]
                   ELSE JoinCaptcha(r))
    /\ UNCHANGED <<member, good_users, removals, joinFrame>>

\* members.py 142-153: get_scoring_config returns.  Without a row of the chat
\* the result is None, `if scoring_config_data:` is false and the scoring
\* block is over; else the profile photos are counted and the first SELECT
\* of get_scoring_stats is awaited
JoinGetConfig(k) ==
    /\ ah[k].pc = "j_get_config"
    /\ LET config == get_scoring_config(chat, cfg)
           r == [ah[k] EXCEPT !.config = config]
       IN  JSet(k, IF IsNone(config) THEN JoinCaptcha(r)
                   ELSE [r EXCEPT !.pc = "j_stats_langs"])
    /\ UNCHANGED <<member, good_users, nMsgs, removals, hs, joinFrame>>

\* database.py 667-674: the first SELECT of get_scoring_stats, the good users
\* counted per language
JoinStatsLangs(k) ==
    /\ ah[k].pc = "j_stats_langs"
    /\ JSet(k, [ah[k] EXCEPT
                   !.stats.lang_counts =
                       get_scoring_stats(good_users).lang_counts,
                   !.pc = "j_stats_total"])
    /\ UNCHANGED <<member, good_users, nMsgs, removals, hs, joinFrame>>

\* database.py 677-682: the second SELECT, the number of the good users
JoinStatsTotal(k) ==
    /\ ah[k].pc = "j_stats_total"
    /\ JSet(k, [ah[k] EXCEPT
                   !.stats.total_good_joins =
                       get_scoring_stats(good_users).total_good_joins,
                   !.pc = "j_stats_ids"])
    /\ UNCHANGED <<member, good_users, nMsgs, removals, hs, joinFrame>>

\* database.py 685-708, members.py 153-209: the third SELECT, the ids in
\* their order, and get_scoring_stats returns.  A key of 157-169 that the
\* dict lacks raises KeyError inside the constructor call, which the `except
\* Exception` of 208 logs: risk_score stays unbound.  With a score above the
\* threshold kick_user_safe is awaited (186); with another one add_good_user
\* is awaited when no captcha follows (197-198)
JoinStatsIds(k) ==
    /\ ah[k].pc = "j_stats_ids"
    /\ LET r0     == ah[k]
           d      == r0.config
           stats  == [r0.stats EXCEPT
                         !.p95_id = get_scoring_stats(good_users).p95_id,
                         !.p99_id = get_scoring_stats(good_users).p99_id]
           failed == ~(JoinSubscriptedKeys \subseteq DOMAIN d)
           risk   == IF failed THEN NULL
                     ELSE score_user(r0.account, r0.photo_count,
                                     build_scoring_config(d), stats)
           over   == ~failed /\ risk > d.threshold
           r      == [r0 EXCEPT !.stats = stats,
                                !.in_mitigation =
                                    ~failed /\ chat.exists
                                            /\ chat.protection_active,
                                !.scoring_failed = failed,
                                !.risk_score = risk, !.scoring_kicked = over]
       IN  JSet(k, IF failed THEN JoinCaptcha(r)
                   ELSE IF over THEN [r EXCEPT !.pc = "j_ban"]
                   ELSE IF ~r.captcha_enabled THEN [r EXCEPT !.pc = "j_add_good"]
                   ELSE JoinCaptcha(r))
    /\ UNCHANGED <<member, good_users, nMsgs, removals, hs, joinFrame>>

\* members.py 186-192 (25): ban_chat_member of the account whose score is
\* above the threshold returns or raises.  No join reaches this step while
\* the constructor call of 156-170 raises
JoinBan(k) ==
    /\ ah[k].pc = "j_ban"
    /\ \E ok \in BOOLEAN :
        /\ member' = [member EXCEPT ![ah[k].user] = @ /\ ~ok]
        /\ JSet(k, [ah[k] EXCEPT !.kicks = @ + 1,
                                 !.pc = IF ok THEN "j_unban" ELSE "t_done"])
    /\ UNCHANGED <<good_users, nMsgs, removals, hs, joinFrame>>

\* members.py 186-192 (26-31): unban_chat_member returns or raises, and the
\* handler returns
JoinUnban(k) ==
    /\ ah[k].pc = "j_unban"
    /\ \E ok \in BOOLEAN :
        /\ removals' = [removals EXCEPT
              ![ah[k].user] = @ + (IF ok THEN 1 ELSE 0)]
        /\ JSet(k, [ah[k] EXCEPT !.kick_ok = ok, !.ban_only = ~ok,
                                 !.pc = "t_done"])
    /\ UNCHANGED <<member, good_users, nMsgs, hs, joinFrame>>

\* members.py 198-217: add_good_user returns (the rows are kept in the order
\* of the user ids); no captcha follows
JoinAddGood(k) ==
    /\ ah[k].pc = "j_add_good"
    /\ LET u == ah[k].user
           n == Cardinality({i \in DOMAIN good_users :
                                good_users[i].user_id <= u})
       IN  good_users' =
               SubSeq(good_users, 1, n)
               \o <<[user_id |-> u,
                     language_code |-> ah[k].account.language_code]>>
               \o SubSeq(good_users, n + 1, Len(good_users))
    /\ JSet(k, JoinCaptcha(ah[k]))
    /\ UNCHANGED <<member, nMsgs, removals, hs, joinFrame>>

\* ------------------------------------------------------------ the tuner's steps
tunerFrame == <<now, chat, sessions, joins, join_users, pending, member, hs,
                hist, nEvents, nActivations, okKicks, nAdmin, accepts, removals,
                lastCount, lastCutoff, issueVars, fstats, gstats, good_users>>

\* captcha.py 92-103: _log_failed_captcha_user stores the row of a user who
\* failed (a user with username, language, two photos, a plain name and an
\* id not above p95, whose stored score is 0)
TunAddFailed(u) ==
    /\ Len(failed_users) < MaxFailed
    /\ failed_users' = add_outcome(failed_users, u)
    /\ UNCHANGED <<ah, nMsgs, cfg, tn, tunerFrame>>

\* captcha.py 244, 353: a handler reaches `await should_trigger_auto_adjust`
TunTriggerStart(k) ==
    /\ ah[k].pc = "idle"
    /\ nMsgs < MaxMsgs
    /\ nMsgs' = nMsgs + 1
    /\ ASet(k, [AIdle EXCEPT !.pc = "t_trigger", !.kind = "trigger"])
    /\ UNCHANGED <<failed_users, cfg, tn, tunerFrame>>

TnSet(r, v) == tn' = [tn EXCEPT ![r] = v]

\* scoring_auto_adjust.py 27-32: get_scoring_config returns; `if not config
\* or not config.get('auto_adjust', True): return None`
TunGetConfig(r) ==
    /\ tn[r].pc = "a_get_config"
    /\ LET config == get_scoring_config(chat, cfg)
       IN  TnSet(r, [tn[r] EXCEPT
                       !.config = config,
                       !.pc = IF IsNone(config) THEN "a_done"
                              ELSE IF ~config.auto_adjust THEN "a_done"
                              ELSE "a_get_failed"])
    /\ UNCHANGED <<ah, nMsgs, failed_users, cfg, tunerFrame>>

\* scoring_auto_adjust.py 32-35, database.py 413-423: the first SELECT of
\* get_failed_captcha_stats returns; under MIN_SAMPLES rows the run ends
TunGetFailed(r) ==
    /\ tn[r].pc = "a_get_failed"
    /\ LET failed == failed_count(MIN_SAMPLES)
       IN  TnSet(r, [tn[r] EXCEPT !.failed = failed,
                                  !.pc = IF failed.exists
                                         THEN "f_no_username"
                                         ELSE "a_done"])
    /\ UNCHANGED <<ah, nMsgs, failed_users, cfg, tunerFrame>>

\* one SELECT of get_failed_captcha_stats returns: the run at `at` goes on to
\* `to` with the dict `failed`
FailedSelect(r, at, to, failed) ==
    /\ tn[r].pc = at
    /\ TnSet(r, [tn[r] EXCEPT !.failed = failed, !.pc = to])
    /\ UNCHANGED <<ah, nMsgs, failed_users, cfg, tunerFrame>>

\* database.py 426-431: the rows without username are counted
TunFailedNoUsername(r) ==
    FailedSelect(r, "f_no_username", "f_names",
                 failed_rates(tn[r].failed, {"no_username_rate"}))

\* database.py 438-453: the names are fetched and classified
TunFailedNames(r) ==
    FailedSelect(r, "f_names", "f_photos",
                 failed_rates(tn[r].failed,
                              {"arabic_cjk_rate", "weird_name_rate"}))

\* database.py 456-476: the rows are counted per photo_count; the SELECT of
\* the five most frequent languages, whose result no caller reads, follows
TunFailedPhotos(r) ==
    FailedSelect(r, "f_photos", "f_avg",
                 failed_rates(tn[r].failed,
                              {"no_avatar_rate", "one_avatar_rate"}))

\* database.py 479-484: AVG(scoring_score)
TunFailedAvg(r) ==
    FailedSelect(r, "f_avg", "f_no_language", failed_avg(tn[r].failed))

\* database.py 487-507: the rows without language are counted; the SELECT
\* of the ids above 8000000000 and the first two SELECTs of get_scoring_stats
\* (the languages and the number of the good users), whose results
\* get_failed_captcha_stats does not read, follow
TunFailedNoLanguage(r) ==
    FailedSelect(r, "f_no_language", "f_percentiles",
                 failed_rates(tn[r].failed, {"no_language_rate"}))

\* database.py 505-510, 527-528 (684-700): the third SELECT of
\* get_scoring_stats returns the ids of the good users; `if p95:` and
\* `if p99:` are false without a good user, and the rates stay 0
TunFailedPercentiles(r) ==
    /\ tn[r].pc = "f_percentiles"
    /\ TnSet(r, [tn[r] EXCEPT !.p95 = has_percentiles,
                              !.p99 = has_percentiles,
                              !.pc = IF has_percentiles THEN "f_above_p95"
                                     ELSE "a_get_good"])
    /\ UNCHANGED <<ah, nMsgs, failed_users, cfg, tunerFrame>>

\* database.py 509-516: the failed users with an id above p95 are counted
TunFailedAboveP95(r) ==
    FailedSelect(r, "f_above_p95",
                 IF tn[r].p99 THEN "f_above_p99" ELSE "a_get_good",
                 failed_rates(tn[r].failed, {"id_above_p95_rate"}))

\* database.py 520-530: the failed users with an id above p99 are counted,
\* and get_failed_captcha_stats returns
TunFailedAboveP99(r) ==
    FailedSelect(r, "f_above_p99", "a_get_good",
                 failed_rates(tn[r].failed, {"id_above_p99_rate"}))

\* scoring_auto_adjust.py 46-206: with the good users' statistics at hand the
\* weights are read out of the config (KeyError ends the coroutine there),
\* the new weights and threshold are computed and, if any differs, written.
\* The write is one step with the computation: it uses only what the
\* coroutine read before.
TunCompute(r, good) ==
    LET config == tn[r].config
        updated == updated_weights(config, tn[r].failed, good)
        threshold == new_threshold(config, tn[r].failed)
        next == apply_updates(cfg, config, updated, threshold)
        writes == weights_changed(config, updated)
                     \/ threshold # config.threshold
    IN  IF KeyErrorRaised
        THEN /\ TnSet(r, [tn[r] EXCEPT !.good = good, !.computed = TRUE,
                                       !.aborted = TRUE, !.pc = "a_done"])
             /\ cfg' = cfg
        ELSE /\ TnSet(r, [tn[r] EXCEPT !.good = good, !.computed = TRUE,
                                       !.wrote = writes,
                                       !.after = next.scoring_weights,
                                       !.pc = "a_done"])
             /\ cfg' = IF writes /\ chat.exists THEN next ELSE cfg

\* scoring_auto_adjust.py 40-44, database.py 552-560: the first SELECT of
\* get_good_users_stats returns; under MIN_SAMPLES rows the result is None and
\* the run goes on to its computation
TunGetGood(r) ==
    /\ tn[r].pc = "a_get_good"
    /\ LET good == good_count(MIN_SAMPLES)
       IN  IF good.exists
           THEN /\ TnSet(r, [tn[r] EXCEPT !.good = good,
                                          !.pc = "g_no_username"])
                /\ cfg' = cfg
           ELSE TunCompute(r, good)
    /\ UNCHANGED <<ah, nMsgs, failed_users, tunerFrame>>

\* database.py 562-568: the good users without username are counted
TunGoodNoUsername(r) ==
    /\ tn[r].pc = "g_no_username"
    /\ TnSet(r, [tn[r] EXCEPT
                    !.good = good_rates(tn[r].good, {"no_username_rate"}),
                    !.pc = "g_no_language"])
    /\ UNCHANGED <<ah, nMsgs, failed_users, cfg, tunerFrame>>

\* database.py 571-614: the good users without language are counted; the
\* SELECTs of the premium rate, the languages, the average id and the average
\* score, which auto_adjust_scoring does not read, follow, and the run goes on
\* to its computation
TunGoodNoLanguage(r) ==
    /\ tn[r].pc = "g_no_language"
    /\ TunCompute(r, good_rates(tn[r].good, {"no_language_rate"}))
    /\ UNCHANGED <<ah, nMsgs, failed_users, tunerFrame>>

\* statistics_clear.py 38-46: the admin's callback clear_good_execute_<chat_id>
ExecuteClearGoodUsers ==
    /\ good_users' = clear_good_users(good_users)
    /\ gstats' = NoStats
    /\ UNCHANGED <<now, chat, sessions, joins, join_users, pending, member, hs,
                   hist, nEvents, nActivations, okKicks, nAdmin, ah,
                   failed_users, nMsgs, accepts, removals, lastCount,
                   lastCutoff, issueVars, cfg, fstats, tn>>

\* ------------------------------------------------------------ process_threshold, process_window
\* the texts an admin sends; "sup2" stands for the character SUPERSCRIPT TWO,
\* which str.isdigit accepts and int() rejects, "arabic3" and "fullwidth3"
\* for decimal digits outside ASCII, which both accept
EditTexts ==
    {<<>>, <<"0">>, <<"1">>, <<"9">>, <<"1", "0">>, <<"6", "0", "0">>,
     <<"6", "0", "1">>, <<"1", "0", "0", "0">>, <<"1", "0", "0", "1">>,
     <<"-", "1">>, <<"a">>, <<"sup2">>, <<"arabic3">>,
     <<"1", "fullwidth3">>}

\* str.isdigit: a nonempty text of digit characters
str_isdigit(text) ==
    /\ text # <<>>
    /\ \A i \in DOMAIN text : IsDigit(text[i])

DigitValue(c) ==
    CASE c = "0" -> 0 [] c = "1" -> 1 [] c = "2" -> 2 [] c = "3" -> 3
      [] c = "4" -> 4 [] c = "5" -> 5 [] c = "6" -> 6 [] c = "7" -> 7
      [] c = "8" -> 8 [] c = "9" -> 9
      [] c = "arabic3" -> 3 [] c = "fullwidth3" -> 3
      [] c = "devanagari7" -> 7

\* int(text) of a text of decimal digits; ValueError (NULL) for another text
RECURSIVE DecimalValue(_)
DecimalValue(text) ==
    IF text = <<>> THEN 0
    ELSE DecimalValue(SubSeq(text, 1, Len(text) - 1)) * 10
            + DigitValue(text[Len(text)])

int(text) ==
    IF text # <<>>
          /\ \A i \in DOMAIN text : text[i] \in Digits \cup UnicodeDecimals
    THEN DecimalValue(text) ELSE NULL

\* setup.py 594 with any number accepted (mutant)
ThresholdInRange_Any(t) == TRUE

\* setup.py 594
ThresholdInRange(t) == ~(t < MIN_JOIN_THRESHOLD \/ t > MAX_JOIN_THRESHOLD)

\* setup.py 637
WindowInRange(w) == ~(w < MIN_TIME_WINDOW \/ w > MAX_TIME_WINDOW)

update_chat_time_window(c, w) ==
    IF c.exists THEN [c EXCEPT !.time_window = w] ELSE c

\* setup.py 583-607: the row after the handler ran on the text (an exception
\* of int() leaves the handler before the update)
process_threshold(c, text) ==
    IF ~str_isdigit(text) THEN c
    ELSE IF int(text) = NULL THEN c
    ELSE IF ~ThresholdInRange(int(text)) THEN c
    ELSE update_chat_threshold(c, int(text))

\* setup.py 626-650
process_window(c, text) ==
    IF ~str_isdigit(text) THEN c
    ELSE IF int(text) = NULL THEN c
    ELSE IF ~WindowInRange(int(text)) THEN c
    ELSE update_chat_time_window(c, int(text))

editFrame == <<now, sessions, joins, join_users, pending, member, hs, hist,
               nEvents, nActivations, okKicks, nAdmin, good_users, failed_users,
               accepts, removals, lastCount, lastCutoff, issueVars, scoringVars,
               tn>>

\* an admin's message arrives in state waiting_for_threshold
ProcessThresholdMsg(k, text) ==
    /\ ah[k].pc = "idle"
    /\ nMsgs < MaxMsgs
    /\ nMsgs' = nMsgs + 1
    /\ chat' = process_threshold(chat, text)
    /\ ASet(k, [AIdle EXCEPT !.pc = "t_done", !.kind = "threshold",
                             !.text = text, !.before = chat.threshold,
                             !.after = chat'.threshold])
    /\ UNCHANGED editFrame

\* an admin's message arrives in state waiting_for_window
ProcessWindowMsg(k, text) ==
    /\ ah[k].pc = "idle"
    /\ nMsgs < MaxMsgs
    /\ nMsgs' = nMsgs + 1
    /\ chat' = process_window(chat, text)
    /\ ASet(k, [AIdle EXCEPT !.pc = "t_done", !.kind = "window",
                             !.text = text, !.before = chat.time_window,
                             !.after = chat'.time_window])
    /\ UNCHANGED editFrame

\* ------------------------------------------------------------ send_captcha
\* risk scores a caller hands to send_captcha.  members.py 225, the only
\* call, hands over risk_score if the name is bound, else 0; the name is bound
\* at members.py 172, after the constructor call of 156-170, which raises
Scores == {0}

\* database.py 239-247: INSERT OR REPLACE of the row of (chat, user)
add_pending_captcha(p, u, message_id, correct_answer, expires_at) ==
    [p EXCEPT ![u] = [exists |-> TRUE, correct_answer |-> correct_answer,
                      message_id |-> message_id, expires_at |-> expires_at]]

\* a call with positional arguments binds when their number is the number of
\* parameters (add_pending_captcha declares no default and no *args)
CallBinds(nargs, nparams) == nargs = nparams

\* captcha.py 124-143: send_captcha(bot, chat, u, scoring_score = s) is called
SendCaptcha(k, u, s) ==
    /\ ah[k].pc = "idle"
    /\ nMsgs < MaxMsgs
    /\ nMsgs' = nMsgs + 1
    /\ handed' = [handed EXCEPT ![u] = s]
    /\ ASet(k, [AIdle EXCEPT !.pc = "s_get_chat", !.user = u, !.kind = "send",
                             !.score = s, !.message_id = nMsgs + 2])
    /\ UNCHANGED <<now, chat, sessions, joins, join_users, pending, member, hs,
                   hist, nEvents, nActivations, okKicks, nAdmin, good_users,
                   failed_users, accepts, removals, lastCount, lastCutoff,
                   timers, issued, scoringVars, tn>>

\* captcha.py 143-161: get_chat returns, the captcha is generated and
\* send_message is awaited
SendGetChat(k) ==
    /\ ah[k].pc = "s_get_chat"
    /\ ASet(k, [ah[k] EXCEPT !.pc = "s_send"])
    /\ UNCHANGED <<pending, member, good_users, failed_users, nMsgs, accepts,
                   removals, tn, captchaFrame>>

\* captcha.py 161-188: send_message returns or raises; expires_at is the
\* clock of this step plus CAPTCHA_TIMEOUT.  The call of add_pending_captcha
\* raises TypeError unless its arguments bind, which the `except Exception`
\* turns into `return False`; a call that binds is awaited
SendMessage(k) ==
    /\ ah[k].pc = "s_send"
    /\ \E ok \in BOOLEAN :
        LET u == ah[k].user
            called == ok /\ CallBinds(SEND_CAPTCHA_ARGS, ADD_PENDING_PARAMS)
        IN  /\ issued' = IF ok THEN [issued EXCEPT ![u] = now] ELSE issued
            /\ ASet(k, [ah[k] EXCEPT !.sent = ok, !.call_time = now,
                                     !.in_mitigation =
                                         @ \/ (ok /\ chat.exists
                                                /\ chat.protection_active),
                                     !.pc = IF called THEN "s_add_pending"
                                                      ELSE "t_done"])
    /\ UNCHANGED <<now, chat, sessions, joins, join_users, pending, member, hs,
                   hist, nEvents, nActivations, okKicks, nAdmin, good_users,
                   failed_users, nMsgs, accepts, removals, lastCount, lastCutoff,
                   timers, handed, scoringVars, tn>>

\* captcha.py 169-188: add_pending_captcha returns, the timeout task is
\* created and send_captcha returns True.  No call reaches this step while
\* the arguments of 169-172 do not bind
SendAddPending(k) ==
    /\ ah[k].pc = "s_add_pending"
    /\ LET u == ah[k].user
       IN  /\ pending' = add_pending_captcha(pending, u, ah[k].message_id,
                                              <<"7">>,
                                              ah[k].call_time + CAPTCHA_TIMEOUT)
           /\ timers' = timers \cup {[user |-> u,
                                      message_id |-> ah[k].message_id]}
    /\ ASet(k, [ah[k] EXCEPT !.pc = "t_done"])
    /\ UNCHANGED <<now, chat, sessions, joins, join_users, member, hs, hist,
                   nEvents, nActivations, okKicks, nAdmin, good_users,
                   failed_users, nMsgs, accepts, removals, lastCount, lastCutoff,
                   handed, issued, scoringVars, tn>>

AuxInit ==
    /\ ah = [k \in Handlers |-> AIdle]
    /\ good_users = <<>>
    /\ failed_users = <<>>
    /\ nMsgs = 0
    /\ accepts = [u \in Users |-> 0]
    /\ removals = [u \in Users |-> 0]
    /\ lastCount = 0
    /\ lastCutoff = 0
    /\ timers = {}
    /\ handed = [u \in Users |-> 0]
    /\ issued = [u \in Users |-> NULL]
    /\ cfg = DefaultCfg
    /\ fstats = NoStats
    /\ gstats = NoStats
    /\ tn = [r \in 1..MaxRuns |-> NoRun]

\* Spec: concurrent join events on a chat that an admin has added and
\* configured; the pending_captcha table holds no row, or (for the chat with
\* the highest threshold and premium protection) the row of user 1 that an
\* earlier run left in the database file
Init ==
    /\ now = 0
    /\ chat \in {add_chat(t, DEFAULT_TIME_WINDOW, pp) :
                    t \in Thresholds, pp \in BOOLEAN}
    /\ sessions = <<>>
    /\ joins = <<>>
    /\ join_users = <<>>
    /\ pending \in {[u \in Users |-> NoPending],
                    [u \in Users |-> IF u = 1 THEN PendingRow(<<"7">>)
                                              ELSE NoPending]}
    /\ pending[1].exists => chat.threshold = MaxThreshold /\ chat.protect_premium
    /\ member = [u \in Users |-> FALSE]
    /\ hs = [h \in Handlers |-> Idle]
    /\ hist = <<>>
    /\ nEvents = 0
    /\ nActivations = 0
    /\ okKicks = 0
    /\ nAdmin = 0
    /\ AuxInit

Next ==
    \/ \E h \in Handlers, u \in Users : OnNewMember(h, u)
    \/ \E h \in Handlers : DetGetChat(h)
    \/ \E h \in Handlers : DetIncMit(h)
    \/ \E h \in Handlers : DetCasOff(h)
    \/ \E h \in Handlers : DetEndSession(h)
    \/ \E h \in Handlers : DetCasOn(h)
    \/ \E h \in Handlers : DetStartSession(h)
    \/ \E h \in Handlers : DetIncAtt(h)
    \/ \E h \in Handlers : MemGetChat(h)
    \/ \E h \in Handlers : MemAsGetChat(h)
    \/ \E h \in Handlers : MemAsMessage(h)
    \/ \E h \in Handlers : MemAsCleanup(h)
    \/ \E h \in Handlers : MemAsDelete(h)
    \/ \E h \in Handlers, i \in 1..MaxJoins : MemAsBan(h, i)
    \/ \E h \in Handlers, i \in 1..MaxJoins : MemAsUnban(h, i)
    \/ \E h \in Handlers : MemAsInc(h)
    \/ \E h \in Handlers : MemEndNotify(h)
    \/ \E h \in Handlers : MemCleanup(h)
    \/ \E h \in Handlers : MemCleanupDelete(h)
    \/ \E h \in Handlers : MemBan(h)
    \/ \E h \in Handlers : MemUnban(h)
    \/ \E h \in Handlers : Return(h)
    \/ Tick

Spec == Init /\ [][Next]_vars

\* AdminSpec: a fresh installation (no chat stored); the admin adds, removes and
\* edits the chat while join events are handled one at a time.  The
\* pending_captcha table is empty and stays so (the add_pending_captcha call of
\* send_captcha does not bind), so no cleanup gets as far as its
\* remove_pending_captcha
AdminInit ==
    /\ now = 0
    /\ chat = NoChat
    /\ sessions = <<>>
    /\ joins = <<>>
    /\ join_users = <<>>
    /\ pending = [u \in Users |-> NoPending]
    /\ member = [u \in Users |-> FALSE]
    /\ hs = [h \in Handlers |-> Idle]
    /\ hist = <<>>
    /\ nEvents = 0
    /\ nActivations = 0
    /\ okKicks = 0
    /\ nAdmin = 0
    /\ AuxInit

AdminNext ==
    \/ \E u \in Users : OnNewMember(1, u)
    \/ DetGetChat(1)
    \/ DetIncMit(1)
    \/ DetCasOff(1)
    \/ DetEndSession(1)
    \/ DetCasOn(1)
    \/ DetStartSession(1)
    \/ DetIncAtt(1)
    \/ MemGetChat(1)
    \/ MemAsGetChat(1)
    \/ MemAsMessage(1)
    \/ MemAsCleanup(1)
    \/ \E i \in 1..MaxJoins : MemAsBan(1, i)
    \/ \E i \in 1..MaxJoins : MemAsUnban(1, i)
    \/ MemAsInc(1)
    \/ MemEndNotify(1)
    \/ MemCleanup(1)
    \/ MemBan(1)
    \/ MemUnban(1)
    \/ Return(1)
    \/ AddChat
    \/ RemoveChat
    \/ \E t \in Thresholds : ProcessThreshold(t)
    \/ \E k \in Handlers : TogglePremiumGetChat(k)
    \/ \E k \in Handlers : TogglePremiumUpdate(k)
    \/ Tick

AdminSpec == AdminInit /\ [][AdminNext]_vars

\* CounterSpec: the JoinCounter driven directly, with any window per call
CounterInit ==
    /\ now = 0
    /\ chat = NoChat
    /\ sessions = <<>>
    /\ joins = <<>>
    /\ join_users = <<>>
    /\ pending = [u \in Users |-> NoPending]
    /\ member = [u \in Users |-> FALSE]
    /\ hs = [h \in Handlers |-> Idle]
    /\ hist = <<>>
    /\ nEvents = 0
    /\ nActivations = 0
    /\ okKicks = 0
    /\ nAdmin = 0
    /\ AuxInit

CounterNext ==
    \/ \E u \in Users \cup {NULL} : CtrAddJoin(u)
    \/ CtrClearChat
    \/ \E w \in Windows : CtrCountInWindow(w)
    \/ \E w \in Windows : CtrGetUsersInWindow(w)
    \/ Tick

CounterSpec == CounterInit /\ [][CounterNext]_vars

\* CaptchaSpec: text messages and callback queries handled concurrently; the
\* pending_captcha table of the database file holds the rows an earlier run
\* left in it.  No timeout task runs: the process has created none (the call
\* before captcha.py 175 raises), and a task does not outlive its process
CaptchaInit ==
    /\ now = 0
    /\ chat = add_chat(DEFAULT_THRESHOLD, DEFAULT_TIME_WINDOW,
                       DEFAULT_PROTECT_PREMIUM)
    /\ sessions = <<>>
    /\ joins = <<>>
    /\ join_users = <<>>
    /\ pending \in [Users -> {NoPending, PendingRow(<<"7">>)}]
    /\ member = [u \in Users |-> TRUE]
    /\ hs = [h \in Handlers |-> Idle]
    /\ hist = <<>>
    /\ nEvents = 0
    /\ nActivations = 0
    /\ okKicks = 0
    /\ nAdmin = 0
    /\ AuxInit

CaptchaNext ==
    \/ \E k \in Handlers, u \in Users, text \in Texts : TextMessage(k, u, text)
    \/ \E k \in Handlers : TxtGetPending(k)
    \/ \E k \in Handlers : TxtRemove(k)
    \/ \E k \in Handlers : TxtAddGood(k)
    \/ \E k \in Handlers : TxtTrigger(k)
    \/ \E k \in Handlers : TxtBan(k)
    \/ \E k \in Handlers : TxtUnban(k)
    \/ \E k \in Handlers : TxtLogFailed(k)
    \/ \E k \in Handlers : TxtReturn(k)
    \/ \E k \in Handlers, u \in Users, text \in CallbackTexts :
          CallbackQuery(k, u, text)
    \/ \E k \in Handlers : CbGetPending(k)
    \/ \E k \in Handlers : CbRemove(k)
    \/ \E k \in Handlers : CbAddGood(k)
    \/ \E k \in Handlers : CbBan(k)
    \/ \E k \in Handlers : CbUnban(k)
    \/ \E k \in Handlers : CbKickRemove(k)
    \/ ExecuteClearGoodUsers

CaptchaSpec == CaptchaInit /\ [][CaptchaNext]_vars

ScoreNext ==
    \/ \E user \in Accounts, photo_count \in 0..2, c \in ScoringConfigs,
          rows \in GoodTables : ScoreUser(1, user, photo_count, c, rows)
    \/ TxtReturn(1)

ScoreSpec == CaptchaInit /\ [][ScoreNext]_vars

\* JoinScoreSpec: the join events of one time window, the detector's part of
\* each handled before the next arrives and its scoring and captcha part
\* beside the next, on a chat with the threshold MaxThreshold and either an
\* empty good_users table or one of PercentileRows rows, while the admin may
\* clear the good users or remove the chat.  The clock stands still, so no
\* join leaves the window and protection mode, once on, stays on
JoinScoreInit ==
    /\ now = 0
    /\ chat = add_chat(MaxThreshold, DEFAULT_TIME_WINDOW,
                       DEFAULT_PROTECT_PREMIUM)
    /\ sessions = <<>>
    /\ joins = <<>>
    /\ join_users = <<>>
    /\ pending = [u \in Users |-> NoPending]
    /\ member = [u \in Users |-> FALSE]
    /\ hs = [h \in Handlers |-> Idle]
    /\ hist = <<>>
    /\ nEvents = 0
    /\ nActivations = 0
    /\ okKicks = 0
    /\ nAdmin = 0
    /\ ah = [k \in Handlers |-> AIdle]
    /\ good_users \in {rows \in GoodTables : Len(rows) \in {0, PercentileRows}}
    /\ failed_users = <<>>
    /\ nMsgs = 0
    /\ accepts = [u \in Users |-> 0]
    /\ removals = [u \in Users |-> 0]
    /\ lastCount = 0
    /\ lastCutoff = 0
    /\ timers = {}
    /\ handed = [u \in Users |-> 0]
    /\ issued = [u \in Users |-> NULL]
    /\ cfg = DefaultCfg
    /\ fstats = NoStats
    /\ gstats = NoStats
    /\ tn = [r \in 1..MaxRuns |-> NoRun]

JoinScoreNext ==
    \/ \E u \in Users : OnNewMember(1, u)
    \/ DetGetChat(1)
    \/ DetIncMit(1)
    \/ DetCasOn(1)
    \/ DetStartSession(1)
    \/ DetIncAtt(1)
    \/ MemGetChat(1)
    \/ MemAsGetChat(1)
    \/ MemAsMessage(1)
    \/ MemAsCleanup(1)
    \/ \E i \in 1..MaxJoins : MemAsBan(1, i)
    \/ \E i \in 1..MaxJoins : MemAsUnban(1, i)
    \/ MemAsInc(1)
    \/ MemCleanup(1)
    \/ MemBan(1)
    \/ MemUnban(1)
    \/ Return(1)
    \/ \E photo_count \in {0, 2}, scoring_on \in BOOLEAN,
          captcha_on \in BOOLEAN :
          \E a \in JoinAccounts(hs[1].user), chat_type \in ChatTypes :
             JoinScore(1, 1, a, chat_type, photo_count, scoring_on, captcha_on)
    \/ JoinGetConfig(1)
    \/ JoinStatsLangs(1)
    \/ JoinStatsTotal(1)
    \/ JoinStatsIds(1)
    \/ SendGetChat(1)
    \/ SendMessage(1)
    \/ TxtReturn(1)
    \/ ExecuteClearGoodUsers
    \/ RemoveChat

JoinScoreSpec == JoinScoreInit /\ [][JoinScoreNext]_vars

\* ------------------------------------------------------------ properties
\* C1: for one pending challenge, concurrent resolution attempts write exactly
\* one outcome record (one good_users row or one failed_users row, never both,
\* never two) and take one terminal action: the user is never both accepted
\* and removed.
C1_ExactlyOneOutcome ==
    \A u \in Users :
        /\ RowsOf(good_users, u) + RowsOf(failed_users, u) <= 1
        /\ ~(accepts[u] >= 1 /\ removals[u] >= 1)

\* C11: a resolution attempt (answer or timeout) that finds no pending record
\* removes nobody, writes no outcome record and leaves the pending store alone.
C11_NoRecordNoEffect ==
    \A k \in Handlers :
        (/\ ah[k].kind \in {"text", "timeout"}
         /\ ah[k].pc \notin {"idle", "t_get_pending", "o_get_pending"}
         /\ ~ah[k].pending.exists)
        => /\ ah[k].pc = "t_done"
           /\ ah[k].removed = 0
           /\ ah[k].kicks = 0
           /\ ah[k].log_calls = 0
           /\ ~ah[k].accepted

\* an answer with digits found no record
C11_Witness ==
    \E k \in Handlers :
        /\ ah[k].kind = "text" /\ ah[k].pc = "t_done"
        /\ ah[k].answer # <<>> /\ ~ah[k].pending.exists
        /\ ah[k].removed = 0

\* C12: a message without a digit from a user with a pending challenge is no
\* resolution attempt: the record stays, nobody is accepted or removed, and no
\* outcome record is written.
C12_NoDigitNoResolution ==
    \A k \in Handlers :
        (/\ ah[k].kind = "text"
         /\ ah[k].pc \notin {"idle", "t_get_pending"}
         /\ ah[k].pending.exists
         /\ \A i \in DOMAIN ah[k].text : ~IsDigit(ah[k].text[i]))
        => /\ ah[k].pc = "t_done"
           /\ ah[k].removed = 0
           /\ ah[k].kicks = 0
           /\ ah[k].log_calls = 0
           /\ ~ah[k].accepted

\* the letter was discarded and the challenge is still pending
C12_Witness ==
    \E k \in Handlers :
        /\ ah[k].kind = "text"
        /\ ah[k].pc = "t_done"
        /\ ah[k].text = <<"a">>
        /\ ah[k].pending.exists
        /\ pending[ah[k].user] = ah[k].pending
        /\ good_users = <<>>
        /\ failed_users = <<>>

\* C15: a timeout and an incorrect answer that found the record delete it,
\* attempt the removal once and append exactly one failed_users row.
C15_SameEffectsOneRow ==
    \A k \in Handlers :
        (/\ ah[k].pc = "t_done"
         /\ ah[k].pending.exists
         /\ \/ ah[k].kind = "timeout"
            \/ /\ ah[k].kind = "text"
               /\ ah[k].answer # <<>>
               /\ ah[k].answer # ah[k].pending.correct_answer)
        => /\ ah[k].removed = 1
           /\ ~pending[ah[k].user].exists
           /\ ah[k].kicks = 1
           /\ ah[k].logged = 1

\* C16: after a resolution that removed the account (incorrect answer or
\* timeout), should_trigger_auto_adjust has been evaluated.
C16_TriggerCheckedAfterRemoval ==
    \A k \in Handlers :
        (/\ ah[k].pc = "t_done"
         /\ ah[k].kind \in {"text", "timeout"}
         /\ ah[k].kick_ok)
        => ah[k].trig_checked

\* C13: once send_captcha has sent the challenge message and returned, the
\* user has a pending record whose expires_at is the issue time plus
\* CAPTCHA_TIMEOUT, and a timeout task for the user exists.
C13_IssuedHasRecordAndTimer ==
    \A k \in Handlers :
        (ah[k].kind = "send" /\ ah[k].pc = "t_done" /\ ah[k].sent)
        => /\ pending[ah[k].user].exists
           /\ pending[ah[k].user].expires_at
                  = issued[ah[k].user] + CAPTCHA_TIMEOUT
           /\ \E t \in timers : t.user = ah[k].user

\* C14: a correct answer deletes the pending record and writes a good-user row
\* whose score is the score that was handed to send_captcha for that user,
\* read off the pending record and not a default.
C14_GoodRowKeepsHandedScore ==
    \A k \in Handlers :
        (ah[k].kind = "text" /\ ah[k].accepted
            /\ ah[k].pc \in {"t_trigger", "t_done"})
        => /\ ah[k].removed = 1
           /\ HasStoredScore(ah[k].pending)
           /\ ah[k].good_score = ah[k].handed_score

\* C17: every pending record is eventually resolved: once its deadline has
\* passed it is deleted (by the timeout, if no answer did it before).
C17_PendingEventuallyResolved ==
    \A u \in Users :
        (pending[u].exists /\ now > pending[u].expires_at)
            ~> ~pending[u].exists

\* C18: auto_adjust_scoring is started only by a trigger check that counted a
\* positive multiple of TRIGGER_EVERY failed users; a check that counted any
\* other number (49, say) starts nothing; a run gets past its guards to the
\* adjustment of 47-203, where alone update_scoring_config is called, only
\* with a stored row, auto_adjust set and at least MIN_SAMPLES failed users.
C18_AdjustOnlyAtMultipleOf50 ==
    /\ \A r \in DOMAIN tn :
        /\ tn[r].pc # "none"
              => tn[r].trig_total > 0 /\ tn[r].trig_total % TRIGGER_EVERY = 0
        /\ tn[r].computed
              => /\ ~IsNone(tn[r].config)
                 /\ tn[r].config.auto_adjust
                 /\ tn[r].failed.exists
                 /\ tn[r].failed.total >= MIN_SAMPLES
    /\ \A k \in Handlers :
        (ah[k].trig_checked /\ ah[k].trig_total % TRIGGER_EVERY # 0)
        => ~ah[k].started

\* a check that counted 49 failed users started nothing, and a run started at
\* 50 got past its guards
C18_Witness ==
    /\ \E k \in Handlers :
          ah[k].trig_checked /\ ah[k].trig_total = 49 /\ ~ah[k].started
    /\ \E r \in DOMAIN tn :
          /\ tn[r].pc = "a_done" /\ tn[r].computed
          /\ tn[r].trig_total = TRIGGER_EVERY

\* C21: a run over failed users of whom more than 70 percent have no username,
\* with good users of whom at most 50 percent have none (or too few good
\* users to tell), raises no_username_risk by ADJUSTMENT_STEP, up to its
\* ceiling of 30.
C21_NoUsernameRaisedByStep ==
    \A r \in DOMAIN tn :
        (/\ tn[r].pc = "a_done" /\ tn[r].computed
         /\ tn[r].failed.n["no_username_rate"] * 100
                > HIGH_FREQ_THRESHOLD * tn[r].failed.total
         /\ ~(/\ tn[r].good.exists
              /\ tn[r].good.n["no_username_rate"] * 100
                     > FALSE_POSITIVE_THRESHOLD * tn[r].good.total)
         /\ tn[r].config.no_username_risk < Caps.no_username_risk)
        => /\ tn[r].wrote
           /\ tn[r].after.no_username_risk
                  = Min(tn[r].config.no_username_risk + ADJUSTMENT_STEP,
                        Caps.no_username_risk)

\* C23: a run lowers the stored threshold by THRESHOLD_STEP, not below
\* MIN_THRESHOLD, if the average score of the failed users is positive and at
\* most THRESHOLD_MARGIN under the threshold, and leaves it alone otherwise.
C23_ThresholdLoweredWhenClose ==
    \A r \in DOMAIN tn :
        (/\ tn[r].pc = "a_done" /\ tn[r].computed
         /\ tn[r].config.threshold >= MIN_THRESHOLD)
        => IF /\ tn[r].failed.avg > 0
              /\ tn[r].failed.avg >= tn[r].config.threshold - THRESHOLD_MARGIN
           THEN cfg.scoring_threshold
                    = Max(tn[r].config.threshold - THRESHOLD_STEP, MIN_THRESHOLD)
           ELSE cfg.scoring_threshold = tn[r].config.threshold

\* C29: every stored chat row has threshold >= 1 and time_window >= 1, and a
\* threshold or window message whose text is not a decimal number (written
\* in the decimal digits of any script) in the accepted range leaves the
\* stored value as it was.
C29_StoredLimitsPositive ==
    /\ chat.exists => chat.threshold >= 1 /\ chat.time_window >= 1
    /\ \A k \in Handlers :
        LET t == ah[k].text
            number == /\ t # <<>>
                      /\ \A i \in DOMAIN t : t[i] \in Digits \cup UnicodeDecimals
        IN  /\ (ah[k].kind = "threshold"
                  /\ ~(number /\ DecimalValue(t) \in 1..1000))
               => ah[k].after = ah[k].before
            /\ (ah[k].kind = "window"
                  /\ ~(number /\ DecimalValue(t) \in 10..600))
               => ah[k].after = ah[k].before

C29_Witness ==
    /\ chat.exists /\ chat.threshold = 1 /\ chat.time_window = 10
    /\ ah[1].kind = "threshold" /\ ah[1].text = <<"0">>

\* C24: every result of score_user is an integer from 0 to 100.
C24_ScoreWithinBounds ==
    \A k \in Handlers :
        ah[k].kind = "score"
        => ah[k].risk_score \in 0..100

\* C24 witnesses: a call whose sum is above 100 and a call whose sum is
\* negative have returned.
C24_Witness ==
    \E k \in Handlers :
        ah[k].kind = "score" /\ ah[k].raw > 100 /\ ah[k].risk_score = 100

C24_WitnessNegative ==
    \E k \in Handlers :
        ah[k].kind = "score" /\ ah[k].raw < 0 /\ ah[k].risk_score = 0

\* C30: the id term is max_id_risk for an id above the 99th percentile, half
\* of it rounded down for an id above the 95th and not above the 99th, and 0
\* otherwise; without both percentiles it is 0.
C30_IdRiskByPercentile ==
    \A k \in Handlers :
        ah[k].kind = "score"
        => ah[k].id_risk =
              IF ah[k].p95_id = NULL \/ ah[k].p99_id = NULL THEN 0
              ELSE IF ah[k].scored_id > ah[k].p99_id THEN ah[k].max_id_risk
              ELSE IF ah[k].scored_id > ah[k].p95_id
                   THEN ah[k].max_id_risk \div 2
              ELSE 0

\* C30 witness: an account between the two percentiles got half of an odd
\* max_id_risk, rounded down.
C30_Witness ==
    \E k \in Handlers :
        /\ ah[k].kind = "score"
        /\ ah[k].p95_id # NULL /\ ah[k].p99_id # NULL
        /\ ah[k].scored_id > ah[k].p95_id /\ ah[k].scored_id <= ah[k].p99_id
        /\ ah[k].max_id_risk = 25 /\ ah[k].id_risk = 12

\* the weights of the stored configuration, a weight it lacks taken from the
\* defaults of ScoringConfig
DocumentedConfig ==
    LET d == scoring_config_dict(cfg)
    IN  [w \in DOMAIN ScoringConfigDefaults |->
            IF w \in DOMAIN d THEN d[w]
            ELSE IF w = "exotic_script_risk" /\ "arabic_cjk_risk" \in DOMAIN d
                 THEN d.arabic_cjk_risk
            ELSE ScoringConfigDefaults[w]]

\* the risk score of the account whose join handler k runs
DocumentedScore(k) ==
    score_user(ah[k].account, ah[k].photo_count, DocumentedConfig,
               ah[k].stats)

\* C25: when the handler of a join with scoring and captcha enabled and no
\* protection mode, which read the chat's stored configuration, has ended,
\* an account whose risk score is above the scoring threshold was removed by
\* scoring and got no captcha, any other account got a captcha and was not
\* removed by scoring.
C25_ScoreDecidesRemovalOrCaptcha ==
    \A k \in Handlers :
        (/\ ah[k].kind = "join" /\ ah[k].pc = "t_done"
         /\ ah[k].scoring_enabled /\ ah[k].captcha_enabled
         /\ ~ah[k].protection_active
         /\ ~IsNone(ah[k].config)
         /\ ah[k].is_group /\ ~ah[k].account.is_bot)
        => IF DocumentedScore(k) > cfg.scoring_threshold
           THEN ah[k].scoring_kicked /\ ~ah[k].challenged
           ELSE ah[k].challenged /\ ~ah[k].scoring_kicked

\* C26: the stored configuration has no random_username_risk; a join handler
\* that read it and has left the scoring block has computed the risk score
\* with the default of that weight.
C26_MissingWeightStillScores ==
    \A k \in Handlers :
        (/\ ah[k].kind = "join"
         /\ ah[k].pc \notin {"idle", "j_get_config", "j_stats_langs",
                              "j_stats_total", "j_stats_ids"}
         /\ ~IsNone(ah[k].config)
         /\ ah[k].scoring_enabled /\ ~ah[k].protection_active
         /\ ~ah[k].account.is_bot)
        => /\ ~ah[k].scoring_failed
           /\ ah[k].risk_score = DocumentedScore(k)

\* C34: no join handler has computed a risk score or sent a captcha while
\* the chat's row said protection mode.
C34_NoScoringNoCaptchaInProtection ==
    \A k \in Handlers :
        ah[k].kind = "join" => ~ah[k].in_mitigation

\* C38: the handler of a join whose chat is not stored records no join,
\* leaves the chat's row and the sessions alone, removes nobody, sends no
\* captcha, and ends.
C38_UnknownChatJoinChangesNothing ==
    [][\A h \in Handlers :
         /\ (hs[h].pc = "d_get_chat" /\ ~chat.exists /\ hs'[h] # hs[h])
            => /\ hs'[h].pc = "done" /\ hs'[h].reason = "chat_not_protected"
               /\ UNCHANGED <<chat, sessions, joins, join_users, hist, pending,
                              member, okKicks, removals, handed, issued, timers>>
         /\ (hs[h].pc = "done" /\ hs[h].reason = "chat_not_protected"
             /\ hs'[h] # hs[h])
            => /\ hs'[h] = Idle
               /\ UNCHANGED <<chat, sessions, joins, join_users, hist, pending,
                              member, okKicks, removals, handed, issued, timers>>
      ]_vars

\* C38 witness: the handler of a join to a chat that is not stored has ended.
C38_Witness ==
    \E h \in Handlers :
        /\ hs[h].pc = "done" /\ hs[h].reason = "chat_not_protected"
        /\ ~chat.exists

\* C33: when no join handler is in progress, the chat's protection_active
\* flag is set exactly when the chat has an attack session with end_time unset.
C33_FlagIffOpenSession ==
    (\A h \in Handlers : hs[h].pc = "idle")
    => ((chat.exists /\ chat.protection_active)
        <=> OpenSessions(sessions) # {})

\* C35: a step never changes an attack session whose end_time is set: its
\* total_kicked and its end_time stay as they are, and the row stays.
C35_ClosedSessionFrozen ==
    [][\A i \in DOMAIN sessions :
         sessions[i].end_time # NULL
         => /\ i \in DOMAIN sessions'
            /\ sessions'[i] = sessions[i]]_vars

\* C35 witness: increment_kicked has run when every session of the chat was
\* closed.
C35_Witness ==
    \E h \in Handlers :
        /\ hs[h].inc_closed
        /\ \E i \in DOMAIN sessions : sessions[i].end_time # NULL

\* C27: when the handler of the join that started an attack ends, every user
\* it marked for removal has had exactly one removal attempt.
C27_OneAttemptPerMarkedUser ==
    \A h \in Handlers :
        (hs[h].pc = "done" /\ hs[h].attack_started /\ hs[h].has_utk)
        => \A u \in Range(hs[h].users_to_kick) :
              Cardinality({i \in DOMAIN hs[h].attempted :
                              hs[h].attempted[i] = u}) = 1

\* C2: at most one attack session of the chat has end_time unset, under any
\* interleaving of join handlers and admin operations.
C2_AtMostOneOpenSession == Cardinality(OpenSessions(sessions)) <= 1

\* C3: every flip of the chat from Normal to Mitigating opens exactly one
\* attack session, by the one event whose compare-and-set changed the flag; an
\* event that found the chat Mitigating, or lost the compare-and-set, opens none.
C3_ActivationOpensOneSession ==
    /\ Len(sessions) + Cardinality({h \in Handlers : hs[h].pc = "d_start_session"})
           = nActivations
    /\ \A h \in Handlers :
        /\ hs[h].cd.protection_active => ~hs[h].opened /\ ~hs[h].attack_started
        /\ hs[h].tried_on /\ ~hs[h].changed /\ hs[h].pc # "d_cas_on"
               => ~hs[h].opened /\ ~hs[h].attack_started

\* two events crossed the threshold together; one session was opened
C3_Witness ==
    /\ nActivations = 1
    /\ Len(sessions) = 1
    /\ \E h1, h2 \in Handlers :
        /\ hs[h1].opened /\ hs[h1].attack_started
        /\ hs[h2].tried_on /\ ~hs[h2].changed /\ hs[h2].pc = "done"

\* C4: a join event handled in Mitigating state after every earlier join left
\* the window takes the chat back to Normal and closes the open session (or
\* finds that a concurrent event did), whatever threshold >= 1 is configured.
C4_ExitWhenWindowAgedOut ==
    \A h \in Handlers :
        (/\ hs[h].pc = "done"
         /\ hs[h].cd.exists
         /\ hs[h].cd.protection_active
         /\ hs[h].prior = 0)
        => (hs[h].attack_ended \/ (hs[h].tried_off /\ ~hs[h].changed))

\* C5: count_in_window never counts a join older than now - W; once time has
\* passed the window with no new join it returns 0.
C5_CountOnlyInWindow ==
    lastCount <= Cardinality({i \in DOMAIN hist : hist[i].ts >= lastCutoff})

\* joins were recorded, time went past the window, and the count came back as 0
C5_Witness ==
    /\ Len(hist) > 0
    /\ lastCutoff > hist[Len(hist)].ts
    /\ lastCount = 0
    /\ joins = <<>>

\* C6: the event that ends the attack does not remove its joiner on the
\* detector's decision.
C6_EndedNotRemoved ==
    \A h \in Handlers : hs[h].kick_tried => ~hs[h].attack_ended

\* an event marked its joiner for removal, ended the attack and removed nobody
C6_Witness ==
    \E h \in Handlers :
        /\ hs[h].pc = "done"
        /\ hs[h].attack_ended
        /\ hs[h].should_kick
        /\ ~hs[h].kick_tried

\* C7: once every handler has returned, the kicked counters of the attack
\* sessions count no more than the removals that succeeded.
C7_KickedOnlyWhenRemoved ==
    (\A h \in Handlers : hs[h].pc = "idle") =>
        LET total[i \in 0..Len(sessions)] ==
                IF i = 0 THEN 0 ELSE total[i - 1] + sessions[i].total_kicked
        IN  total[Len(sessions)] <= okKicks

\* C8: an event handled in Mitigating state marks its joiner for removal
\* exactly when the joiner is not (premium and protect_premium).
C8_MitigatingMarksUnlessProtected ==
    \A h \in Handlers :
        (/\ hs[h].pc \notin {"idle", "d_get_chat"}
         /\ hs[h].cd.exists
         /\ hs[h].cd.protection_active)
        => (hs[h].should_kick
              <=> ~(Truthy(is_premium(hs[h].user)) /\ hs[h].cd.protect_premium))

\* a premium joiner was left alone in Mitigating state under protect_premium
C8_Witness ==
    \E h \in Handlers :
        /\ hs[h].pc = "done"
        /\ hs[h].cd.protection_active
        /\ hs[h].cd.protect_premium
        /\ Truthy(is_premium(hs[h].user))
        /\ ~hs[h].should_kick

\* C9: on the event whose compare-and-set turned mitigation on, users_to_kick
\* holds the users of the joins in the window, without the premium-protected
\* ones and without the triggering user, and the triggering user is marked for
\* removal unless premium-protected.
C9_WindowUsersMarked ==
    \A h \in Handlers :
        hs[h].attack_started =>
            /\ Range(hs[h].users_to_kick) =
                 {hist[i].user_id : i \in
                    {j \in 1..hs[h].utk_n :
                        /\ hist[j].ts >= hs[h].utk_cutoff
                        /\ ~(hist[j].is_premium /\ hs[h].cd.protect_premium)
                        /\ hist[j].user_id # hs[h].user}}
            /\ hs[h].should_kick
                 <=> ~(Truthy(is_premium(hs[h].user)) /\ hs[h].cd.protect_premium)

\* the attack started with another user in the window and an older join outside it
C9_Witness ==
    \E h \in Handlers :
        /\ hs[h].attack_started
        /\ hs[h].users_to_kick # <<>>
        /\ hs[h].should_kick
        /\ \E j \in 1..hs[h].utk_n : hist[j].ts < hs[h].utk_cutoff

\* C10: an event in Normal state that saw the count at the threshold and lost
\* the compare-and-set still marks its joiner for removal unless
\* premium-protected, and opens no attack session.
C10_CasLoserStillMarks ==
    \A h \in Handlers :
        (/\ hs[h].tried_on
         /\ ~hs[h].changed
         /\ hs[h].pc \notin {"idle", "d_get_chat", "d_cas_on"})
        => /\ hs[h].should_kick
                <=> ~(Truthy(is_premium(hs[h].user)) /\ hs[h].cd.protect_premium)
           /\ ~hs[h].opened
           /\ ~hs[h].attack_started

\* the loser of the compare-and-set is about to remove its joiner
C10_Witness ==
    \E h \in Handlers :
        /\ hs[h].pc = "m_ban"
        /\ ~hs[h].cd.protection_active
        /\ hs[h].tried_on
        /\ ~hs[h].changed
        /\ hs[h].should_kick

\* IssueSpec: send_captcha and the answers, started with the pending_captcha
\* rows an earlier run stored.
\* No timeout task runs: the only place that creates one is captcha.py 175,
\* after the add_pending_captcha call, and get_expired_captchas has no caller.
\* Coroutines that were started keep running; messages need not arrive.
IssueInit ==
    /\ now = 0
    /\ chat = add_chat(DEFAULT_THRESHOLD, DEFAULT_TIME_WINDOW,
                       DEFAULT_PROTECT_PREMIUM)
    /\ sessions = <<>>
    /\ joins = <<>>
    /\ join_users = <<>>
    /\ pending \in [Users -> {NoPending, PendingRow(<<"7">>)}]
    /\ member = [u \in Users |-> TRUE]
    /\ hs = [h \in Handlers |-> Idle]
    /\ hist = <<>>
    /\ nEvents = 0
    /\ nActivations = 0
    /\ okKicks = 0
    /\ nAdmin = 0
    /\ ah = [k \in Handlers |-> AIdle]
    /\ good_users = <<>>
    /\ failed_users = <<>>
    /\ nMsgs = 0
    /\ accepts = [u \in Users |-> 0]
    /\ removals = [u \in Users |-> 0]
    /\ lastCount = 0
    /\ lastCutoff = 0
    /\ timers = {}
    /\ handed = [u \in Users |-> 0]
    /\ issued = [u \in Users |-> NULL]
    /\ cfg = DefaultCfg
    /\ fstats = NoStats
    /\ gstats = NoStats
    /\ tn = [r \in 1..MaxRuns |-> NoRun]

IssueSteps ==
    \/ \E k \in Handlers : SendGetChat(k)
    \/ \E k \in Handlers : SendMessage(k)
    \/ \E k \in Handlers : TxtGetPending(k)
    \/ \E k \in Handlers : TxtRemove(k)
    \/ \E k \in Handlers : TxtAddGood(k)
    \/ \E k \in Handlers : TxtTrigger(k)
    \/ \E k \in Handlers : TxtBan(k)
    \/ \E k \in Handlers : TxtUnban(k)
    \/ \E k \in Handlers : TxtLogFailed(k)
    \/ \E k \in Handlers : TxtReturn(k)

IssueNext ==
    \/ \E k \in Handlers, u \in Users, s \in Scores : SendCaptcha(k, u, s)
    \/ \E k \in Handlers, u \in Users, text \in {<<"7">>, <<"8">>} :
          TextMessage(k, u, text)
    \/ IssueSteps
    \/ Tick

IssueSpec == IssueInit /\ [][IssueNext]_vars /\ WF_vars(IssueSteps)

\* TunerSpec: the trigger and auto_adjust_scoring over the stored scoring
\* configuration and the failed_users and good_users rows of the last seven
\* days.
FailedTotals == {49, 50}
HighCount == 38
EdgeCount == 35
LowCount == 5
GoodTotal == 30
GoodHighCount == 16
GoodLowCount == 3
AvgScores == {0, 45}

\* the sets of statistics that are frequent among the failed users: an id
\* above p99 is above p95, and the photo counts 0 and 1 exclude each other
HighSets ==
    {{}, {"no_username_rate"}, {"id_above_p95_rate"},
     {"id_above_p99_rate", "id_above_p95_rate"},
     Features \ {"one_avatar_rate"}}

\* the good users: GoodLowCount of them, with a username and a language;
\* GoodTotal of them, GoodLowCount without username and as many without
\* language; GoodTotal of them, GoodHighCount without each
GoodKinds == {"few", "unlike", "alike"}

\* the tables at the start: n failed users, c of them with each statistic of
\* H and LowCount with each other one, their scores avg on average; good users
\* of kind G; auto_adjust a.  More failed users above p95 than above p99 take
\* two percentile rows, which GoodLowCount good users do not have
TunerInputs ==
    {x \in [n : FailedTotals, H : HighSets, c : {HighCount}, G : GoodKinds,
            avg : {0}, a : {TRUE}] :
        x.H = {"id_above_p95_rate"} => x.G # "few"}
    \cup [n : FailedTotals, H : {{}}, c : {HighCount}, G : {"few"},
          avg : AvgScores, a : BOOLEAN]
    \cup [n : {TRIGGER_EVERY}, H : {{"no_username_rate"}}, c : {EdgeCount},
          G : {"few"}, avg : {0}, a : {TRUE}]

TunerInit ==
    /\ now = 0
    /\ chat = add_chat(DEFAULT_THRESHOLD, DEFAULT_TIME_WINDOW,
                       DEFAULT_PROTECT_PREMIUM)
    /\ sessions = <<>>
    /\ joins = <<>>
    /\ join_users = <<>>
    /\ pending = [u \in Users |-> NoPending]
    /\ member = [u \in Users |-> TRUE]
    /\ hs = [h \in Handlers |-> Idle]
    /\ hist = <<>>
    /\ nEvents = 0
    /\ nActivations = 0
    /\ okKicks = 0
    /\ nAdmin = 0
    /\ ah = [k \in Handlers |-> AIdle]
    /\ good_users = <<>>
    /\ failed_users = <<>>
    /\ nMsgs = 0
    /\ accepts = [u \in Users |-> 0]
    /\ removals = [u \in Users |-> 0]
    /\ lastCount = 0
    /\ lastCutoff = 0
    /\ timers = {}
    /\ handed = [u \in Users |-> 0]
    /\ issued = [u \in Users |-> NULL]
    /\ \E x \in TunerInputs :
          /\ cfg = [DefaultCfg EXCEPT !.scoring_auto_adjust = x.a]
          /\ fstats = [total |-> x.n,
                       n |-> [f \in Features |->
                                 IF f \in x.H THEN x.c ELSE LowCount],
                       score_sum |-> x.avg * x.n]
          /\ gstats = IF x.G = "few"
                      THEN [NoStats EXCEPT !.total = GoodLowCount]
                      ELSE [total |-> GoodTotal,
                            n |-> [f \in Features |->
                                      IF x.G = "alike" /\ f \in GoodFeatures
                                      THEN GoodHighCount ELSE GoodLowCount],
                            score_sum |-> 0]
    /\ tn = [r \in 1..MaxRuns |-> NoRun]

TunerNext ==
    \/ TunAddFailed(1)
    \/ \E k \in Handlers : TunTriggerStart(k)
    \/ \E k \in Handlers : TxtTrigger(k)
    \/ \E k \in Handlers : TxtReturn(k)
    \/ \E r \in 1..MaxRuns : TunGetConfig(r)
    \/ \E r \in 1..MaxRuns : TunGetFailed(r)
    \/ \E r \in 1..MaxRuns : TunFailedNoUsername(r)
    \/ \E r \in 1..MaxRuns : TunFailedNames(r)
    \/ \E r \in 1..MaxRuns : TunFailedPhotos(r)
    \/ \E r \in 1..MaxRuns : TunFailedAvg(r)
    \/ \E r \in 1..MaxRuns : TunFailedNoLanguage(r)
    \/ \E r \in 1..MaxRuns : TunFailedPercentiles(r)
    \/ \E r \in 1..MaxRuns : TunFailedAboveP95(r)
    \/ \E r \in 1..MaxRuns : TunFailedAboveP99(r)
    \/ \E r \in 1..MaxRuns : TunGetGood(r)
    \/ \E r \in 1..MaxRuns : TunGoodNoUsername(r)
    \/ \E r \in 1..MaxRuns : TunGoodNoLanguage(r)
    \/ ExecuteClearGoodUsers
    \/ RemoveChat

TunerSpec == TunerInit /\ [][TunerNext]_vars

\* EditSpec: chat additions and removals and the admin's threshold and window
\* messages, one handler at a time
EditNext ==
    \/ AddChat
    \/ RemoveChat
    \/ TogglePremiumGetChat(1)
    \/ TogglePremiumUpdate(1)
    \/ \E text \in EditTexts : ProcessThresholdMsg(1, text)
    \/ \E text \in EditTexts : ProcessWindowMsg(1, text)
    \/ TxtReturn(1)

EditSpec == AdminInit /\ [][EditNext]_vars

====
